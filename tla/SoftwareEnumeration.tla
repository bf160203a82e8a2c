------------------------- MODULE SoftwareEnumeration -------------------------
(* ReadInstalledSoftware of the agent (regenum.cpp): the two loops over the   *)
(* Uninstall keys of the registry, that of the user first and then that of    *)
(* the machine, which fill ProgramList.  RegEnumKeyEx is called with an index *)
(* and with the size of the name buffer, which a successful call replaces by  *)
(* the length of the name.  Installers add and remove keys meanwhile, and the *)
(* Uninstall key itself; the loop ends at ERROR_NO_MORE_ITEMS only, and takes *)
(* every other error for a key to pass by.                                    *)
EXTENDS Integers, Sequences, SequencesExt, FiniteSets

CONSTANTS
    Keys,       \* names of subkeys
    NameLength,  \* NameLength[k]: the length of the name k
    BufferSize,  \* 1024
    IndexSize,   \* 2^32: dwIndex is a DWORD
    Orders,      \* bound: the subkeys a root may have at first, in index order
    MaxChanges   \* bound: keys added and removed, and calls that fail, meanwhile

ASSUME EnumerationAssumption ==
    /\ BufferSize \in Nat \ {0} /\ MaxChanges \in Nat /\ IsFiniteSet(Keys)
    /\ IndexSize \in Nat /\ IndexSize > Cardinality(Keys)
    /\ \A s \in Orders : s \in Seq(Keys) /\ IsInjective(s)
    /\ NameLength \in [Keys -> 1..(BufferSize - 1)]

Roots == 1..2  \* HKEY_CURRENT_USER, HKEY_LOCAL_MACHINE

VARIABLES
    hive,         \* hive[i]: the subkeys of root i, in the order of their index
    readable,     \* readable[i]: the root can be opened
    locked,       \* the subkeys that cannot be opened
    removable,    \* the subkeys with an uninstall string
    pc,           \* root, enum, item or done
    i,            \* the root
    dwIndex, cbName, szSubKeyName,
    programList,  \* the root each listed program was read from, 0: not listed
    broken,       \* the Uninstall key that the loop has open was removed
    changes,      \* keys added or removed, and calls that failed, so far
    stayed,       \* stayed[r]: the subkeys of root r that have been there all along
    disturbed     \* the roots a subkey was removed from, or the loop failed to read

registry == <<hive, readable, locked, removable, broken, changes, stayed, disturbed>>
loop == <<pc, i, dwIndex, cbName, szSubKeyName>>
enumVars == <<registry, loop, programList>>

-----------------------------------------------------------------------------
EnumInit ==
    /\ hive \in [Roots -> Orders]
    /\ readable \in [Roots -> BOOLEAN]
    /\ locked \in SUBSET Keys
    /\ removable \in SUBSET Keys
    /\ pc = "root" /\ i = 1
    /\ dwIndex = 0 /\ cbName = BufferSize /\ szSubKeyName = "none"
    /\ programList = [k \in Keys |-> 0]
    /\ changes = 0 /\ broken = FALSE
    /\ stayed = [r \in Roots |-> ToSet(hive[r])]
    /\ disturbed = {}

\* The loop goes on with the root after this one, or ends.
NextRoot ==
    /\ pc' = IF i = 2 THEN "done" ELSE "root"
    /\ i' = IF i = 2 THEN i ELSE i + 1
    /\ UNCHANGED <<dwIndex, cbName, szSubKeyName>>

OpenRoot ==
    /\ pc = "root"
    /\ IF readable[i]
       THEN /\ pc' = "enum" /\ dwIndex' = 0 /\ cbName' = BufferSize
            /\ UNCHANGED <<i, szSubKeyName>>
       ELSE NextRoot
    /\ UNCHANGED <<registry, programList>>

AtEnd == dwIndex >= Len(hive[i])
Current == hive[i][dwIndex + 1]

NextIndex ==
    /\ pc' = "enum"
    /\ dwIndex' = IF dwIndex = IndexSize - 1 THEN 0 ELSE dwIndex + 1
    /\ cbName' = BufferSize
    /\ UNCHANGED <<i, szSubKeyName>>

\* ERROR_NO_MORE_ITEMS
EnumEnds ==
    /\ pc = "enum" /\ ~broken /\ AtEnd
    /\ NextRoot
    /\ UNCHANGED <<registry, programList>>

\* Variants, here and below, are plausible mistakes in the definition that
\* follows them; PROJECT.json pairs each with the property that detects it.
EnumSucceeds_FreshBuffer ==
    /\ pc = "enum" /\ ~broken /\ ~AtEnd
    /\ szSubKeyName' = Current
    /\ cbName' = NameLength[Current]
    /\ pc' = "item"
    /\ UNCHANGED <<registry, i, dwIndex, programList>>

EnumSucceeds ==
    /\ pc = "enum" /\ ~broken /\ ~AtEnd
    /\ NameLength[Current] < cbName
    /\ szSubKeyName' = Current
    /\ cbName' = NameLength[Current]
    /\ pc' = "item"
    /\ UNCHANGED <<registry, i, dwIndex, programList>>

EnumFails_Ends ==
    /\ pc = "enum" /\ ~broken /\ ~AtEnd
    /\ NameLength[Current] >= cbName
    /\ NextRoot
    /\ UNCHANGED <<registry, programList>>

\* ERROR_MORE_DATA: the name and its terminator do not fit.
EnumFails ==
    /\ pc = "enum" /\ ~broken /\ ~AtEnd
    /\ NameLength[Current] >= cbName
    /\ NextIndex
    /\ UNCHANGED <<registry, programList>>

\* ERROR_KEY_DELETED, for ever: the index goes round, and the loop never ends.
EnumRefused ==
    /\ pc = "enum" /\ broken
    /\ NextIndex
    /\ UNCHANGED <<registry, programList>>

\* Any other error, ERROR_NO_SYSTEM_RESOURCES say: the key there is passed by.
EnumErrs ==
    /\ pc = "enum" /\ ~broken /\ changes < MaxChanges
    /\ NextIndex
    /\ changes' = changes + 1 /\ disturbed' = disturbed \cup {i}
    /\ UNCHANGED <<hive, readable, locked, removable, broken, stayed, programList>>

Opens == ~broken /\ szSubKeyName \in ToSet(hive[i]) \ locked

\* continue: neither the index nor the size of the buffer is set again.
ItemSkipped ==
    /\ pc = "item" /\ ~Opens
    /\ pc' = "enum"
    /\ UNCHANGED <<registry, i, dwIndex, cbName, szSubKeyName, programList>>

ItemRead_KeepsFirst ==
    /\ pc = "item" /\ Opens
    /\ programList' = IF szSubKeyName \in removable /\ programList[szSubKeyName] = 0
                      THEN [programList EXCEPT ![szSubKeyName] = i] ELSE programList
    /\ NextIndex
    /\ UNCHANGED registry

ItemRead ==
    /\ pc = "item" /\ Opens
    /\ programList' = IF szSubKeyName \in removable
                      THEN [programList EXCEPT ![szSubKeyName] = i] ELSE programList
    /\ NextIndex
    /\ UNCHANGED registry

-----------------------------------------------------------------------------
(* Installers.                                                                *)

Change(r, keys) ==
    /\ pc # "done" /\ changes < MaxChanges
    /\ changes' = changes + 1
    /\ hive' = [hive EXCEPT ![r] = keys]
    /\ UNCHANGED <<loop, readable, locked, removable, programList>>

Lose(r, keys) ==
    /\ stayed' = [stayed EXCEPT ![r] = @ \ keys]
    /\ disturbed' = disturbed \cup {r}

Install(r, k, n) ==
    /\ k \notin ToSet(hive[r])
    /\ n \in 1..(Len(hive[r]) + 1)
    /\ Change(r, InsertAt(hive[r], n, k))
    /\ UNCHANGED <<broken, stayed, disturbed>>

Uninstall(r, k) ==
    /\ \E n \in DOMAIN hive[r] : hive[r][n] = k /\ Change(r, RemoveAt(hive[r], n))
    /\ Lose(r, {k})
    /\ UNCHANGED broken

\* The Uninstall key is removed with all its subkeys while the loop has it open.
RemoveRoot ==
    /\ pc \in {"enum", "item"}
    /\ Change(i, <<>>)
    /\ Lose(i, Keys)
    /\ broken' = TRUE

EnumStep ==
    \/ OpenRoot \/ EnumEnds \/ EnumSucceeds \/ EnumFails \/ EnumRefused \/ EnumErrs
    \/ ItemSkipped \/ ItemRead

EnumNext ==
    \/ EnumStep \/ RemoveRoot
    \/ \E r \in Roots, k \in Keys :
        Uninstall(r, k) \/ \E n \in 1..(Len(hive[r]) + 1) : Install(r, k, n)

EnumSpec == EnumInit /\ [][EnumNext]_enumVars /\ WF_enumVars(EnumStep)

-----------------------------------------------------------------------------
(* Properties.                                                                *)

EnumTypeOK ==
    /\ hive \in [Roots -> Seq(Keys)] /\ \A r \in Roots : IsInjective(hive[r])
    /\ readable \in [Roots -> BOOLEAN]
    /\ locked \subseteq Keys /\ removable \subseteq Keys
    /\ pc \in {"root", "enum", "item", "done"} /\ i \in Roots
    /\ dwIndex \in 0..(IndexSize - 1)
    /\ cbName \in 1..BufferSize /\ szSubKeyName \in Keys \cup {"none"}
    /\ programList \in [Keys -> Roots \cup {0}]
    /\ changes \in 0..MaxChanges /\ broken \in BOOLEAN
    /\ stayed \in [Roots -> SUBSET Keys] /\ disturbed \subseteq Roots

Listable(r) == IF readable[r] THEN removable \ locked ELSE {}

\* However the keys shift while others are added, and although a key that does
\* not open is retried with a buffer too small for it, no program is missed in
\* a root from which nothing was removed and of which no call failed but for the
\* size of the buffer.
NothingMissed ==
    pc = "done" =>
        \A r \in Roots \ disturbed : \A k \in stayed[r] \cap Listable(r) : programList[k] # 0

\* In a registry nobody changes the list is exact, and a program that both
\* roots have is listed with the data of the machine's.
ListExact ==
    pc = "done" /\ changes = 0 =>
        \A k \in Keys :
            LET in == {r \in Roots : k \in ToSet(hive[r]) \cap Listable(r)}
            IN  programList[k] = IF in = {} THEN 0 ELSE CHOOSE r \in in : \A q \in in : q <= r

\* What the agent reports of a registry is right (ReadInstalledSoftware).
EnumerationExact == NothingMissed /\ ListExact

\* The enumeration ends, although a key that does not open leaves the index
\* where it was.  The exception is an Uninstall key that is removed while it is
\* read: every call fails then, and no error but one ends the loop.
EnumerationEnds == <>(pc = "done" \/ broken)
=============================================================================
