-------------------------- MODULE SymbolAddresses --------------------------
(***************************************************************************)
(* How dump_symbols finds the names of the registered functions: it runs   *)
(* the registration, which only has their addresses, and then looks up the *)
(* address of every symbol of the bitcode file.  What the bitcode defines  *)
(* gets its address from the JIT, what the builder's own process has is    *)
(* resolved to that (two names may have one address there), and for the    *)
(* rest FakeSymbolResolver makes up addresses in memory that is reserved   *)
(* piecewise and never accessed.                                           *)
(***************************************************************************)
EXTENDS Naturals, Sequences, FiniteSets, Functions

CONSTANTS
    Symbol,         \* the symbols declared in the bitcode of the registration
    Jitted,         \* [those defined there -> address]
    Hosted,         \* [those of the builder's process -> address]
    Registrations,  \* the sequences of registrations to run: functions and their wrappers
    FakeMemory,     \* where mmap may reserve memory for addresses
    x_length,       \* bytes of a reservation
    AddressStep,    \* bytes from one address to the next
    None

AddressesOK ==
    /\ DOMAIN Jitted \subseteq Symbol /\ DOMAIN Hosted \subseteq Symbol
    /\ x_length \in Nat /\ AddressStep \in Nat \ {0} /\ 0 \notin FakeMemory
    /\ \A s, t \in DOMAIN Jitted : Jitted[s] = Jitted[t] => s = t
    /\ \A b \in FakeMemory : \A a \in b .. b + x_length :
        a \notin Range(Jitted) \cup Range(Hosted) /\ (a \in FakeMemory => a = b)

\* [fn |-> the function, wrapper |-> the wrapper to call it through, or None]
Registration == [fn : Symbol, wrapper : DOMAIN Jitted \cup {None}]

RegistrationsOK ==
    \A r \in Registrations :
        /\ r \in Seq(Registration)
        /\ \A i, j \in DOMAIN r :
            /\ r[i].wrapper # None => r[i].wrapper \notin {r[k].fn : k \in DOMAIN r}
            /\ r[i].fn = r[j].fn => r[i].wrapper = r[j].wrapper

VARIABLES
    registrations,  \* pochivm_register_runtime.cpp
    address,        \* the symbols looked up so far, with their addresses
    m_curAddr, m_addrEnd, m_pastAddrs,      \* of FakeSymbolResolver
    g_symbolAddrToTypeData,     \* the registration of each address
    addrToSymbol,               \* a symbol of each address
    hasMultipleSymbolsMappingToThisAddress,
    recorded,       \* the names found for the registration of each address
    stage, reported
fake == <<m_curAddr, m_addrEnd, m_pastAddrs>>
vars == <<registrations, address, fake, g_symbolAddrToTypeData, addrToSymbol,
          hasMultipleSymbolsMappingToThisAddress, recorded, stage, reported>>

Nothing == [x \in {} |-> None]

Init ==
    /\ registrations \in Registrations
    /\ address = Nothing /\ m_curAddr = 0 /\ m_addrEnd = 0 /\ m_pastAddrs = {}
    /\ g_symbolAddrToTypeData = Nothing /\ addrToSymbol = Nothing
    /\ hasMultipleSymbolsMappingToThisAddress = {} /\ recorded = Nothing
    /\ stage = "link" /\ reported = 0

With(f, x, v) == [y \in DOMAIN f \cup {x} |-> IF y = x THEN v ELSE f[y]]

-----------------------------------------------------------------------------
Resolve(s, a) == address' = With(address, s, a)

ResolveKnown(s) ==
    /\ s \in DOMAIN Jitted \cup DOMAIN Hosted
    /\ Resolve(s, IF s \in DOMAIN Jitted THEN Jitted[s] ELSE Hosted[s])
    /\ UNCHANGED fake

\* FakeSymbolResolver::GetNextAddress
GetNextAddress(s) ==
    IF m_curAddr = 0 \/ m_curAddr >= m_addrEnd
    THEN \E base \in FakeMemory \ m_pastAddrs :
        /\ m_pastAddrs' = m_pastAddrs \cup {base}
        /\ Resolve(s, base)
        /\ m_curAddr' = base + AddressStep /\ m_addrEnd' = base + x_length
    ELSE
        /\ Resolve(s, m_curAddr)
        /\ m_curAddr' = m_curAddr + AddressStep
        /\ UNCHANGED <<m_addrEnd, m_pastAddrs>>

ResolveFake(s) == s \notin DOMAIN Jitted \cup DOMAIN Hosted /\ GetNextAddress(s)

\* Once an address has been given to a symbol, the JIT keeps it.
Link(s) ==
    /\ stage = "link" /\ s \notin DOMAIN address
    /\ ResolveKnown(s) \/ ResolveFake(s)
    /\ UNCHANGED <<registrations, g_symbolAddrToTypeData, addrToSymbol,
                   hasMultipleSymbolsMappingToThisAddress, recorded, stage, reported>>

\* __pochivm_report_info__: what has the address of another registration is
\* ignored, with a warning.
Report ==
    /\ stage = "link" /\ DOMAIN address = Symbol /\ reported < Len(registrations)
    /\ reported' = reported + 1
    /\ LET r == registrations[reported + 1] IN
        g_symbolAddrToTypeData' =
            IF address[r.fn] \in DOMAIN g_symbolAddrToTypeData THEN g_symbolAddrToTypeData
            ELSE With(g_symbolAddrToTypeData, address[r.fn], r)
    /\ UNCHANGED <<registrations, address, fake, addrToSymbol,
                   hasMultipleSymbolsMappingToThisAddress, recorded, stage>>

\* The symbols are gone through in an order of their own, the last one with an
\* address is kept for it.
InsertSymbolAddresses ==
    /\ stage = "link" /\ DOMAIN address = Symbol /\ reported = Len(registrations)
    /\ LET SymbolsAt(a) == {s \in Symbol : address[s] = a} IN
       /\ hasMultipleSymbolsMappingToThisAddress' =
            {a \in Range(address) : Cardinality(SymbolsAt(a)) > 1}
       /\ \E last \in Symbol :
            addrToSymbol' = [a \in Range(address) |->
                IF a = address[last] THEN last ELSE CHOOSE s \in SymbolsAt(a) : TRUE]
    /\ stage' = "match"
    /\ UNCHANGED <<registrations, address, fake, g_symbolAddrToTypeData, recorded, reported>>
\* Mutant: any symbol with the address will do.
MatchAnySymbol(a) ==
    /\ stage = "match" /\ a \in DOMAIN g_symbolAddrToTypeData \ DOMAIN recorded
    /\ \A b \in DOMAIN g_symbolAddrToTypeData \ DOMAIN recorded : a <= b
    /\ LET r == g_symbolAddrToTypeData[a]
           w == IF r.wrapper = None THEN None ELSE addrToSymbol[address[r.wrapper]]
       IN /\ recorded' = With(recorded, a, [fn |-> addrToSymbol[a], wrapper |-> w])
          /\ addrToSymbol' = IF w = None THEN addrToSymbol ELSE [addrToSymbol EXCEPT ![a] = w]
    /\ UNCHANGED <<registrations, address, fake, g_symbolAddrToTypeData,
                   hasMultipleSymbolsMappingToThisAddress, stage, reported>>

\* The registrations in the order of their addresses.  symbolPair is a reference
\* into addrToSymbol, and the names of the wrapper are assigned to it.
Match(a) ==
    /\ stage = "match" /\ a \in DOMAIN g_symbolAddrToTypeData \ DOMAIN recorded
    /\ \A b \in DOMAIN g_symbolAddrToTypeData \ DOMAIN recorded : a <= b
    /\ IF a \in hasMultipleSymbolsMappingToThisAddress
       THEN stage' = "aborted" /\ UNCHANGED <<recorded, addrToSymbol>>
       ELSE LET r == g_symbolAddrToTypeData[a]
                w == IF r.wrapper = None THEN None ELSE addrToSymbol[address[r.wrapper]]
            IN /\ recorded' = With(recorded, a, [fn |-> addrToSymbol[a], wrapper |-> w])
               /\ addrToSymbol' = IF w = None THEN addrToSymbol ELSE [addrToSymbol EXCEPT ![a] = w]
               /\ UNCHANGED stage
    /\ UNCHANGED <<registrations, address, fake, g_symbolAddrToTypeData,
                   hasMultipleSymbolsMappingToThisAddress, reported>>

Matched == stage = "match" /\ DOMAIN recorded = DOMAIN g_symbolAddrToTypeData
Stopped == (stage = "aborted" \/ Matched) /\ UNCHANGED vars

Next ==
    \/ \E s \in Symbol : Link(s)
    \/ Report \/ InsertSymbolAddresses
    \/ \E a \in DOMAIN g_symbolAddrToTypeData : Match(a)
    \/ Stopped

Spec == Init /\ [][Next]_vars

-----------------------------------------------------------------------------
(* Properties. *)

\* Type invariant; the next fake address lies within the memory last reserved, or
\* that memory is used up.
TypeOK ==
    /\ registrations \in Registrations /\ reported \in 0 .. Len(registrations)
    /\ DOMAIN address \subseteq Symbol /\ m_pastAddrs \subseteq FakeMemory
    /\ m_curAddr # 0 => \E b \in m_pastAddrs : m_addrEnd = b + x_length /\ b <= m_curAddr
    /\ DOMAIN recorded \subseteq DOMAIN g_symbolAddrToTypeData
    /\ stage \in {"link", "match", "aborted"}

\* A made-up address is in reserved memory and belongs to one symbol only, so that
\* a function that is nowhere in the builder is still told apart from all others.
FakesAreUnique ==
    \A s \in DOMAIN address \ (DOMAIN Jitted \cup DOMAIN Hosted) :
        /\ \E b \in m_pastAddrs : b <= address[s] /\ address[s] < b + x_length
        /\ \A t \in DOMAIN address \ {s} : address[t] # address[s]

\* When names have been found for all, every registered function has its own name,
\* and the name of its own wrapper; none has been lost because another function
\* was registered with its address.
NamesAreRight ==
    Matched =>
        \A i \in DOMAIN registrations :
            LET r == registrations[i] IN recorded[address[r.fn]] = r

\* The build is only given up for a registered function that shares its address.
AbortsAreAmbiguous ==
    stage = "aborted" =>
        \E i \in DOMAIN registrations : \E s \in Symbol \ {registrations[i].fn} :
            address[s] = address[registrations[i].fn]

=============================================================================
