-------------------------- MODULE FunctionWrappers --------------------------
(***************************************************************************)
(* What becomes of the types of a C++ function that is registered, so that *)
(* generated code can call it.  Registration turns references, and objects *)
(* passed or returned by value, into pointers, and adds a wrapper if the   *)
(* calling convention changes with that (ReflectionHelper).  The builder   *)
(* finds the classes used in the bitcode of what is to be called and       *)
(* prints the metadata and a check of its prototype (dump_symbols), which  *)
(* the post-build verifier carries out.                                    *)
(*                                                                         *)
(* A type is a base under a number of pointers, perhaps referred to, the   *)
(* referred-to value perhaps const; const behind a pointer is dropped, and *)
(* changes nothing.  Classes are passed in registers or in memory, as the  *)
(* C++ ABI has it.  What the builder rejects (functions, arrays, vectors,  *)
(* rvalue references, volatile, variable arguments) is left out.           *)
(***************************************************************************)
EXTENDS Naturals, Sequences, FiniteSets

CONSTANTS
    Functions,      \* what may be registered
    Class,
    InRegisters,    \* the classes the ABI passes by value in registers
    ThrowingCopy    \* the classes whose copy constructor may throw

VARIABLES
    fn,             \* the function that is registered
    typeNameMap,    \* the classes found in the bitcode
    metadata,       \* its CppFunctionMetadata, and the prototype to check
    stage
vars == <<fn, typeNameMap, metadata, stage>>

Type(base, depth) == [base |-> base, depth |-> depth]
CppType == [base : Class \cup {"void", "bool", "char", "i32", "double"},
            depth : Nat, ref : BOOLEAN, const : BOOLEAN]
Cpp(base, depth) == [base |-> base, depth |-> depth, ref |-> FALSE, const |-> FALSE]
Kinds == {"free", "member", "constructor", "destructor", "member_object"}
ConstantsOK ==
    \A f \in Functions :
        /\ f.kind \in Kinds /\ f.class \in Class /\ f.noexcept \in BOOLEAN
        /\ f.ret \in CppType /\ \A k \in DOMAIN f.params : f.params[k] \in CppType

AddPointer(t) == [t EXCEPT !.depth = @ + 1]
PointerTo(t) == Cpp(t.base, t.depth + 1)
IsObject(t) == t.base \in Class /\ t.depth = 0 /\ ~t.ref

-----------------------------------------------------------------------------
(* Registration *)

remove_type_ref(t) == IF t.ref \/ IsObject(t) THEN PointerTo(t) ELSE t

is_converted_reference_type(t) == remove_type_ref(t) # t

\* A reference is passed as a pointer anyway.
is_nontrivial_arg_conversion(t) == ~t.ref /\ is_converted_reference_type(t)

\* What the API shows: the type of an argument, and whether it is a Reference<T>
\* or a Value<T>.
ApiArg(t) == [type |-> Type(t.base, t.depth), isVar |-> is_converted_reference_type(t)]
ApiReturn(t) == [type |-> Type(t.base, t.depth), isVar |-> t.ref]

is_wrapper_fn_required(f) ==
    \/ is_nontrivial_arg_conversion(f.ret)
    \/ \E k \in DOMAIN f.params : is_nontrivial_arg_conversion(f.params[k])

\* The wrapper passes on an object by value as a reference, which is then copied.
convert_param(t) ==
    IF is_nontrivial_arg_conversion(t) THEN "copy" ELSE IF t.ref THEN "object" ELSE "value"

is_param_wrappings_nothrow(params) ==
    \A k \in DOMAIN params :
        is_nontrivial_arg_conversion(params[k]) => params[k].base \notin ThrowingCopy

\* Every parameter with its role: where the result goes, the object of a member
\* function, or the argument of that number.
Param(role, t) == [role |-> role, type |-> t]
Converted(params) == [k \in DOMAIN params |-> Param(k, remove_type_ref(params[k]))]
This(f) == IF f.kind = "member" THEN <<Param("this", Cpp(f.class, 1))>> ELSE <<>>

function_wrapper(f) ==
    LET sret == is_nontrivial_arg_conversion(f.ret)
    IN [params |-> (IF sret THEN <<Param("result", PointerTo(f.ret))>> ELSE <<>>)
                       \o This(f) \o Converted(f.params),
        ret |-> IF sret THEN Cpp("void", 0) ELSE remove_type_ref(f.ret),
        noexcept |-> f.noexcept /\ is_param_wrappings_nothrow(f.params)]

constructor_wrapper(f) ==
    [params |-> <<Param("this", Cpp(f.class, 1))>> \o Converted(f.params),
     ret |-> Cpp("void", 0),
     noexcept |-> f.noexcept /\ is_param_wrappings_nothrow(f.params)]

\* Constructors, destructors and data members have no address: what is registered
\* is a function that stands for them.
StandIn(f, ret) == [kind |-> "free", class |-> f.class, ret |-> ret, params |-> <<Cpp(f.class, 1)>>, noexcept |-> TRUE]
destructor_wrapper(f) == StandIn(f, Cpp("void", 0))
member_object_accessor(f) == StandIn(f, [f.ret EXCEPT !.ref = TRUE])

Registered(f) ==
    CASE f.kind = "destructor" -> destructor_wrapper(f)
      [] f.kind = "member_object" -> member_object_accessor(f)
      [] OTHER -> f
Wrapper(f) ==
    IF f.kind = "constructor" THEN constructor_wrapper(f) ELSE function_wrapper(Registered(f))

RawFnTypeNamesInfo(f) ==
    LET t == Registered(f)
        original == IF f.kind = "constructor" THEN <<Cpp(f.class, 1)>> \o f.params ELSE t.params
        wrapped == f.kind # "constructor" /\ is_wrapper_fn_required(t)
    IN [params |-> [k \in DOMAIN original |-> ApiArg(original[k])],
        ret |-> ApiReturn(t.ret),
        isMember |-> f.kind = "member",
        isUsingWrapper |-> wrapped,
        isWrapperUsingSret |-> wrapped /\ is_nontrivial_arg_conversion(t.ret)]

\* The classes whose destructors are registered along with the function
RegisterDestructors(f) ==
    IF f.kind \in {"constructor", "destructor"} THEN {f.class}
    ELSE IF f.kind \in {"free", "member"} /\ IsObject(f.ret) THEN {f.ret.base} ELSE {}

-----------------------------------------------------------------------------
(* The bitcode: what clang makes of a prototype *)

LLVMBase == [b \in Class \cup {"void", "bool", "char", "i32", "double"} |->
    CASE b = "char" -> "i8" [] b = "bool" -> "i1" [] OTHER -> b]
Stored(base) == IF base \in {"void", "bool"} THEN "i8" ELSE LLVMBase[base]
Lowered(t) ==
    LET depth == t.depth + (IF t.ref THEN 1 ELSE 0)
    IN CASE IsObject(t) /\ t.base \in InRegisters -> Type("coerced", 0)
         [] IsObject(t) /\ t.base \notin InRegisters -> Type(t.base, 1)
         [] OTHER -> Type(IF depth = 0 THEN LLVMBase[t.base] ELSE Stored(t.base), depth)

\* A wrapper has no objects in its prototype, and its roles are its parameters'.
LoweredWrapper(w) ==
    [params |-> [k \in DOMAIN w.params |-> Param(w.params[k].role, Lowered(w.params[k].type))],
     ret |-> Lowered(w.ret)]
LoweredFunction(f) ==
    LET sret == IsObject(f.ret) /\ f.ret.base \notin InRegisters
    IN [params |-> (IF sret THEN <<Param("result", Type(f.ret.base, 1))>> ELSE <<>>)
                       \o [k \in DOMAIN This(f) |-> Param("this", Type(f.class, 1))]
                       \o [k \in DOMAIN f.params |-> Param(k, Lowered(f.params[k]))],
        ret |-> IF sret THEN Type("void", 0) ELSE Lowered(f.ret)]

\* The function generated code is linked with
UsesWrapper(f) == f.kind = "constructor" \/ RawFnTypeNamesInfo(f).isUsingWrapper
Linked(f) == IF UsesWrapper(f) THEN LoweredWrapper(Wrapper(f)) ELSE LoweredFunction(Registered(f))

-----------------------------------------------------------------------------
(* The builder *)

Init ==
    /\ fn \in Functions /\ typeNameMap = {} /\ metadata = <<>> /\ stage = "registered"

\* The types of the bitcode beside the types of the API, in order
Beside(f) ==
    LET info == RawFnTypeNamesInfo(f)
        linked == Linked(f)
        first == IF info.isWrapperUsingSret THEN 1 ELSE 0
        this == IF info.isMember THEN 1 ELSE 0
        Pair(t, api) == [type |-> t, api |-> api]
        Variable(type) == [type |-> type, isVar |-> TRUE]
    IN <<IF info.isWrapperUsingSret
         THEN Pair(linked.params[1].type, Variable(info.ret.type)) ELSE Pair(linked.ret, info.ret)>>
       \o (IF info.isMember THEN <<Pair(linked.params[first + 1].type, Variable(Type(f.class, 0)))>> ELSE <<>>)
       \o [k \in DOMAIN info.params |-> Pair(linked.params[first + this + k].type, info.params[k])]

\* The name of a class is left when the pointers are taken off both.
Matches(pair) ==
    LET pointers == IF pair.api.isVar THEN 1 ELSE 0
    IN /\ pair.type.depth >= pointers
       /\ pair.type.base \in Class => pair.type.depth - pointers = pair.api.type.depth

matchTypes ==
    LET pairs == Beside(fn)
        info == RawFnTypeNamesInfo(fn)
        taken == (IF info.isWrapperUsingSret THEN 1 ELSE 0) + (IF info.isMember THEN 1 ELSE 0)
    IN /\ stage = "registered"
       /\ IF Len(info.params) = Len(Linked(fn).params) - taken
             /\ \A k \in DOMAIN pairs : Matches(pairs[k])
          THEN /\ typeNameMap' = {pairs[k].api.type.base : k \in {j \in DOMAIN pairs : pairs[j].type.base \in Class}}
               /\ stage' = "matched"
          ELSE stage' = "rejected" /\ UNCHANGED typeNameMap
       /\ UNCHANGED <<fn, metadata>>

\* The types generated code knows the function by
CppFunctionMetadata(isUsingSret, isNoExcept) ==
    LET info == RawFnTypeNamesInfo(fn)
        Shown(api) == IF api.isVar THEN AddPointer(api.type) ELSE api.type
    IN [paramTypes |-> (IF info.isMember THEN <<Type(fn.class, 1)>> ELSE <<>>)
                           \o [k \in DOMAIN info.params |-> Shown(info.params[k])],
        returnType |-> Shown(info.ret),
        isUsingSret |-> isUsingSret,
        isNoExcept |-> isNoExcept]

\* The prototype with the place of the result
FullPrototype(md) ==
    IF md.isUsingSret
    THEN [params |-> <<AddPointer(md.returnType)>> \o md.paramTypes, ret |-> Type("void", 0)]
    ELSE [params |-> md.paramTypes, ret |-> md.returnType]

\* The static_asserts of the header about a wrapper
IsPrototypeOf(md, w) ==
    LET p == FullPrototype(md)
        IsType(t, cpp) == t = Type(cpp.base, cpp.depth)
    IN /\ IsType(p.ret, w.ret)
       /\ Len(p.params) = Len(w.params)
       /\ \A k \in DOMAIN p.params : IsType(p.params[k], w.params[k].type)

\* A class that is not in the map has no TypeId.
HasTypeIds(md) ==
    \A t \in {md.returnType} \cup {md.paramTypes[k] : k \in DOMAIN md.paramTypes} :
        t.base \in Class => t.base \in typeNameMap

PrintedAs(md, asserts) ==
    /\ stage = "matched"
    /\ metadata' = md
    /\ stage' = IF asserts /\ HasTypeIds(md) THEN "compiled" ELSE "rejected"
    /\ UNCHANGED <<fn, typeNameMap>>

PrintFnCallBody ==
    LET info == RawFnTypeNamesInfo(fn)
        w == function_wrapper(fn)
        md == CppFunctionMetadata(info.isUsingWrapper /\ info.isWrapperUsingSret, w.noexcept)
    IN fn.kind \in {"free", "member"} /\ PrintedAs(md, IsPrototypeOf(md, w))

PrintConstructorFnCallBody ==
    LET w == constructor_wrapper(fn)
        md == CppFunctionMetadata(FALSE, w.noexcept)
    IN fn.kind = "constructor" /\ PrintedAs(md, IsPrototypeOf(md, w))

\* Of a data member and of a destructor only the object is checked.
PrintMemberObject ==
    LET info == RawFnTypeNamesInfo(fn)
        md == CppFunctionMetadata(FALSE, function_wrapper(member_object_accessor(fn)).noexcept)
    IN /\ fn.kind = "member_object"
       /\ PrintedAs(md, info.ret.isVar /\ ~info.isUsingWrapper /\ md.paramTypes = <<Type(fn.class, 1)>>)

PrintDestructor ==
    LET info == RawFnTypeNamesInfo(fn)
        md == CppFunctionMetadata(FALSE, TRUE)
    IN /\ fn.kind = "destructor"
       /\ PrintedAs(md, /\ ~info.ret.isVar /\ md.returnType = Type("void", 0)
                    /\ md.paramTypes = <<Type(fn.class, 1)>> /\ Registered(fn).noexcept)

-----------------------------------------------------------------------------
(* The post-build verifier, for the types of the metadata *)

RECURSIVE validate_type(_, _)
validate_type(t, type) ==
    CASE t.depth = 0 -> type = Type(LLVMBase[t.base], 0)
      [] t.depth = 1 /\ t.base \in {"bool", "void"} -> type = Type("i8", 1)
      [] OTHER -> /\ type.depth > 0
                  /\ validate_type([t EXCEPT !.depth = @ - 1], [type EXCEPT !.depth = @ - 1])

validate_bc_code(p, linked) ==
    /\ Len(linked.params) = Len(p.params)
    /\ validate_type(p.ret, linked.ret)
    /\ \A k \in DOMAIN p.params : validate_type(p.params[k], linked.params[k].type)

ValidateAllBitcodeFnPrototypes ==
    /\ stage = "compiled"
    /\ stage' = IF validate_bc_code(FullPrototype(metadata), Linked(fn)) THEN "verified" ELSE "rejected"
    /\ UNCHANGED <<fn, typeNameMap, metadata>>

Next ==
    \/ matchTypes
    \/ PrintFnCallBody \/ PrintConstructorFnCallBody \/ PrintMemberObject \/ PrintDestructor
    \/ ValidateAllBitcodeFnPrototypes

Spec == Init /\ [][Next]_vars

-----------------------------------------------------------------------------
(* Calls from generated code *)

RECURSIVE llvm_type_of(_)
llvm_type_of(t) ==
    IF t.depth = 0 THEN Type(LLVMBase[t.base], 0)
    ELSE LET pointee == IF t.depth = 1 /\ t.base \in {"bool", "void"} THEN Type("i8", 0)
                        ELSE llvm_type_of([t EXCEPT !.depth = @ - 1])
         IN AddPointer(pointee)

\* The operands of the call: the place of the result if the function is known to
\* have one, the object, the arguments.
CallRoles ==
    LET results == IF metadata.isUsingSret THEN 1 ELSE 0
        this == IF fn.kind \in {"member", "constructor"} THEN 1 ELSE 0
    IN [k \in 1 .. results + Len(metadata.paramTypes) |->
            IF k <= results THEN "result" ELSE IF k <= results + this THEN "this" ELSE k - results - this]

\* The interpreters call the wrapper even if it changes nothing; LLVM mode calls
\* what is linked.
Modes == {"interp", "llvm"}
Called(mode) == IF mode = "llvm" THEN Linked(fn) ELSE LoweredWrapper(Wrapper(fn))

\* What the function gets: a function that is called with a pointer instead of an
\* object takes the object itself for its copy.
Arrives(mode, t) ==
    IF mode = "interp" \/ UsesWrapper(fn) THEN convert_param(t)
    ELSE IF IsObject(t) /\ t.base \in InRegisters THEN "garbage"
    ELSE IF IsObject(t) \/ t.ref THEN "object" ELSE "value"

-----------------------------------------------------------------------------
(* Properties. *)

\* Type invariant.
TypeOK ==
    /\ fn.kind \in Kinds /\ typeNameMap \subseteq Class
    /\ stage \in {"registered", "matched", "compiled", "verified", "rejected"}
    /\ stage \in {"compiled", "verified"} => metadata.isNoExcept \in BOOLEAN /\ metadata.isUsingSret \in BOOLEAN

\* A function that is supported is never turned down by the builder, the compiler
\* of the generated header, or the verifier, which would all ask for a bug report.
NothingIsRejected == stage # "rejected"

\* A call from generated code, in any mode, gives the function what a call in C++
\* would give it: everything in its place and of the type it has in the bitcode,
\* its own copy of an object passed by value, and the object itself by reference.
CallsAreFaithful ==
    stage = "verified" =>
        \A mode \in Modes :
            LET p == FullPrototype(metadata)
                called == Called(mode)
            IN /\ called.ret = llvm_type_of(p.ret)
               /\ called.params = [k \in DOMAIN CallRoles |-> Param(CallRoles[k], llvm_type_of(p.params[k]))]
               /\ \A k \in DOMAIN fn.params :
                      Arrives(mode, fn.params[k]) = IF IsObject(fn.params[k]) THEN "copy"
                                                    ELSE IF fn.params[k].ref THEN "object" ELSE "value"

\* Generated code takes a call for one that does not throw exactly if neither the
\* function throws nor the copying of its arguments.
ExceptionsAreKnown ==
    stage = "verified" =>
        LET copies == {k \in DOMAIN fn.params : IsObject(fn.params[k])}
        IN metadata.isNoExcept <=>
               \/ fn.kind \in {"destructor", "member_object"}
               \/ fn.noexcept /\ \A k \in copies : fn.params[k].base \notin ThrowingCopy

\* Whatever object a call creates for generated code, its destructor has been
\* registered too.
CreatedIsDestructible ==
    stage = "verified" =>
        /\ metadata.isUsingSret => metadata.returnType.base \in RegisterDestructors(fn)
        /\ fn.kind = "constructor" => fn.class \in RegisterDestructors(fn)
=============================================================================
