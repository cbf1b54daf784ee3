------------------------- MODULE TemplateParameters -------------------------
(***************************************************************************)
(* FindTemplateParameters (src/runtime_lib_builder/dump_symbols.cpp): the  *)
(* template arguments of a registered function are cut out of its          *)
(* demangled name, from right to left, by matching parentheses and         *)
(* brackets.  A name is a sequence of tokens; only the punctuation tells   *)
(* anything apart.  Every step of a loop is a step here.                   *)
(***************************************************************************)
EXTENDS Naturals, Sequences, SequencesExt

CONSTANTS
    Names,      \* the functions whose names are parsed
    NoTemplate  \* the arguments of a function that is none of a template

\* A demangled name: what stands before the name of the function (return type,
\* class), the name, the template arguments, the parameters, and qualifiers.
Name == [scope : Seq(STRING), base : Seq(STRING), args : Seq(Seq(STRING)) \cup {NoTemplate},
         params : Seq(STRING), suffix : Seq(STRING)]

ConstantsOK == \A n \in Names : n \in Name /\ n.base # <<>>

Commas(parts) == IF parts = <<>> THEN <<>>
                 ELSE Head(parts) \o FlattenSeq([k \in 1 .. Len(parts) - 1 |-> <<",">> \o parts[k + 1]])

\* What the demangler makes of a function.
Demangled(n) ==
    n.scope \o n.base
        \o (IF n.args = NoTemplate THEN <<>> ELSE <<"<">> \o Commas(n.args) \o <<">">>)
        \o <<"(">> \o n.params \o <<")">> \o n.suffix

VARIABLES
    name,       \* the function
    i,          \* position in the demangled name, from the right
    state,      \* which loop the parser is in
    parenthesisDepth, bracketDepth,
    lastPos,    \* the comma or bracket that ends the current argument
    m_templateParams
vars == <<name, i, state, parenthesisDepth, bracketDepth, lastPos, m_templateParams>>

demangledSymbolName == Demangled(name)
At(k) == demangledSymbolName[k]

Init ==
    /\ name \in Names /\ i = Len(Demangled(name)) /\ state = "suffix"
    /\ parenthesisDepth = 0 /\ bracketDepth = 0 /\ lastPos = 0 /\ m_templateParams = <<>>

\* Arguments are found from right to left; in the end they are reversed.
Argument == SubSeq(demangledSymbolName, i + 1, lastPos - 1)

Left == i' = i - 1

SkipSuffix ==
    /\ state = "suffix"
    /\ IF At(i) = ")" THEN state' = "params" /\ UNCHANGED i ELSE Left /\ UNCHANGED state
    /\ UNCHANGED <<name, parenthesisDepth, bracketDepth, lastPos, m_templateParams>>

Deeper == IF At(i) = ")" THEN parenthesisDepth + 1
          ELSE IF At(i) = "(" THEN parenthesisDepth - 1 ELSE parenthesisDepth

\* The parameters, and parentheses within a template argument, up to the left
\* parenthesis that matches.
MatchParenthesis(within, after) ==
    /\ state = within
    /\ parenthesisDepth' = Deeper
    /\ IF At(i) = "(" /\ Deeper = 0 THEN state' = after ELSE UNCHANGED state
    /\ Left
    /\ UNCHANGED <<name, bracketDepth, lastPos, m_templateParams>>

\* The bracket of operator-> is none.
IsArrow == i >= 3 /\ SubSeq(demangledSymbolName, i - 2, i) = <<"operator", "-", ">">>

LookForTemplate ==
    /\ state = "name"
    /\ IF At(i) = ">" /\ ~IsArrow
       THEN state' = "brackets" /\ bracketDepth' = 1 /\ lastPos' = i /\ Left
       ELSE state' = "plain" /\ UNCHANGED <<i, bracketDepth, lastPos>>
    /\ UNCHANGED <<name, parenthesisDepth, m_templateParams>>

InBrackets(token) == state = "brackets" /\ i > 0 /\ At(i) = token

\* Commas and brackets within parentheses mean nothing.
EnterParentheses ==
    /\ InBrackets(")")
    /\ state' = "parentheses" /\ parenthesisDepth' = 0
    /\ UNCHANGED <<name, i, bracketDepth, lastPos, m_templateParams>>

RightBracket ==
    /\ InBrackets(">")
    /\ bracketDepth' = bracketDepth + 1 /\ Left
    /\ UNCHANGED <<name, state, parenthesisDepth, lastPos, m_templateParams>>

LeftBracket ==
    /\ InBrackets("<")
    /\ bracketDepth' = bracketDepth - 1
    /\ IF bracketDepth > 1 THEN Left /\ UNCHANGED <<state, m_templateParams>>
       ELSE /\ state' = "template" /\ UNCHANGED i
            /\ m_templateParams' =
                Reverse(IF i + 1 <= lastPos - 1 THEN Append(m_templateParams, Argument)
                        ELSE m_templateParams)
    /\ UNCHANGED <<name, parenthesisDepth, lastPos>>

Comma ==
    /\ InBrackets(",")
    /\ IF bracketDepth = 1
       THEN m_templateParams' = Append(m_templateParams, Argument) /\ lastPos' = i
       ELSE UNCHANGED <<m_templateParams, lastPos>>
    /\ Left
    /\ UNCHANGED <<name, state, parenthesisDepth, bracketDepth>>

OtherInBrackets ==
    /\ state = "brackets" /\ i > 0 /\ At(i) \notin {")", ">", "<", ","}
    /\ Left
    /\ UNCHANGED <<name, state, parenthesisDepth, bracketDepth, lastPos, m_templateParams>>

\* ReleaseAssert(bracketDepth == 0)
AssertFails ==
    /\ state = "brackets" /\ i = 0
    /\ state' = "failed"
    /\ UNCHANGED <<name, i, parenthesisDepth, bracketDepth, lastPos, m_templateParams>>

Stopped == state \in {"plain", "template", "failed"} /\ UNCHANGED vars

Next ==
    \/ SkipSuffix
    \/ MatchParenthesis("params", "name") \/ MatchParenthesis("parentheses", "brackets")
    \/ LookForTemplate
    \/ EnterParentheses \/ RightBracket \/ LeftBracket \/ Comma \/ OtherInBrackets \/ AssertFails
    \/ Stopped

Spec == Init /\ [][Next]_vars

-----------------------------------------------------------------------------
(* Properties. *)

\* Type invariant; the parser does not leave the name before it has stopped.
TypeOK ==
    /\ name \in Names /\ i \in 0 .. Len(demangledSymbolName) /\ lastPos \in i .. Len(demangledSymbolName) \cup {0}
    /\ (i = 0 => state \in {"brackets", "failed"})
    /\ parenthesisDepth \in Nat /\ bracketDepth \in Nat

\* The parser finds what the demangler was given: whether the function is one of a
\* template, and its arguments in order, whatever brackets, commas and parentheses
\* they contain.
ParsesBack ==
    /\ state = "plain" => name.args = NoTemplate
    /\ state = "template" => m_templateParams = name.args

=============================================================================
