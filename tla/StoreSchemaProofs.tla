-------------------------- MODULE StoreSchemaProofs --------------------------
(***************************************************************************)
(* That a store the runtimes made has the tables of its version, and that  *)
(* one that was opened is whole, for any number of runtimes and failures.  *)
(*                                                                         *)
(* Neither is inductive: what a runtime may conclude at the end of a       *)
(* script rests on what it did, and found done, before.  The invariant     *)
(* therefore follows each opener through its scripts (Progress), and keeps *)
(* apart the stores the installer has a hand in (Made).                    *)
(*                                                                         *)
(* Then the same over the units of RuntimeStart, which start over stores   *)
(* of earlier releases as well: what holds of the store holds there too,   *)
(* and an older store never becomes a newer one.                           *)
(***************************************************************************)
EXTENDS RuntimeStart, TLAPS

\* A script is a sequence of at most four tables.
LEMMA ScriptType ==
  /\ \A n \in Versions : /\ Len(Script[n]) \in 0 .. 4
                         /\ \A i \in 1 .. Len(Script[n]) : Script[n][i] \in Tables
  /\ Len(InstallScript) = 8
  /\ \A i \in 1 .. 8 : InstallScript[i] \in Tables
<1>1. /\ Len(Script[1]) = 3 /\ Len(Script[2]) = 4 /\ Len(Script[3]) = 3
      /\ Len(InstallScript) = 8
  BY DEF Script, InstallScript
<1>2. /\ \A i \in 1 .. 3 : Script[1][i] \in Tables
      /\ \A i \in 1 .. 4 : Script[2][i] \in Tables
      /\ \A i \in 1 .. 3 : Script[3][i] \in Tables
  BY DEF Script, Tables
<1>3. \A i \in 1 .. 8 : InstallScript[i] \in Tables
  BY DEF InstallScript, Tables
<1>4. ASSUME NEW n \in Versions
      PROVE  /\ Len(Script[n]) \in 0 .. 4
             /\ \A i \in 1 .. Len(Script[n]) : Script[n][i] \in Tables
  <2>1. CASE n = 1
    BY <2>1, <1>1, <1>2
  <2>2. CASE n = 2
    BY <2>2, <1>1, <1>2
  <2>3. CASE n = 3
    BY <2>3, <1>1, <1>2
  <2>. QED  BY <2>1, <2>2, <2>3 DEF Versions
<1>. QED  BY <1>1, <1>3, <1>4

-----------------------------------------------------------------------------
(* The inductive invariant *)

\* Who made the file, and what is so as long as the installer has no hand in it.
Made ==
  /\ maker = "nobody" => version = 0 /\ \A p \in Openers : phase[p] = "closed"
  /\ installing # 0 => maker = "installer"
  /\ maker # "installer" => \A t \in Tables : tables[t] # "lacking"

\* An opener has run the lines before the one it is at, and the scripts before that.
Running(p) ==
  /\ line[p] <= Len(Script[script[p]]) + 1
  /\ script[p] = 1 \/ seen[p] < script[p]
  /\ maker = "runtime" =>
       /\ \A n \in Versions : n < script[p] => HasScript(n)
       /\ \A i \in 1 .. Len(Script[script[p]]) :
            i < line[p] => tables[Script[script[p]][i]] = "whole"

Progress ==
  \A p \in Openers :
    /\ phase[p] = "closed" => script[p] = 1 /\ line[p] = 1
    /\ phase[p] = "running" => Running(p)
    /\ phase[p] = "reading" => version >= 1

IInv == TypeOK /\ Made /\ Progress /\ VersionTellsTables /\ MigratedIsWhole

LEMMA InitInv == Init => IInv
<1>1. Init => TypeOK
  BY ScriptType, StoreSchemaAssumption DEF Init, TypeOK, Versions, StoreSchemaAssumption
<1>2. Init => Made /\ VersionTellsTables /\ MigratedIsWhole
  BY DEF Init, Made, VersionTellsTables, MigratedIsWhole
<1>3. Init => Progress
  BY DEF Init, Progress
<1>. QED  BY <1>1, <1>2, <1>3 DEF IInv

-----------------------------------------------------------------------------
(* The types *)

LEMMA GoOnType ==
  ASSUME TypeOK, NEW p \in Openers, NEW v \in {0} \cup Versions, NEW n \in Versions,
         GoOn(p, v, n)
  PROVE  /\ phase' \in [Openers -> {"closed", "running", "reading", "open"}]
         /\ script' \in [Openers -> Versions]
         /\ line' \in [Openers -> 1 .. 5]
BY DEF TypeOK, GoOn, Due, Start, Versions

LEMMA TypeStep ==
  ASSUME TypeOK, [Next]_vars
  PROVE  TypeOK'
<1>. USE ScriptType DEF TypeOK, opener, Versions
<1>1. ASSUME Install \/ InstallVersion \/ InstallEnds \/ InstallFails PROVE TypeOK'
  BY <1>1, StoreSchemaAssumption DEF Install, InstallVersion, InstallEnds, InstallFails,
     StoreSchemaAssumption
<1>2. CASE InstallTable
  BY <1>2 DEF InstallTable, Installed
<1>3. ASSUME NEW p \in Openers, Open(p) PROVE TypeOK'
  BY <1>3 DEF Open
<1>4. ASSUME NEW p \in Openers, Create(p) PROVE TypeOK'
  <2>1. line[p] \in 1 .. Len(Script[script[p]]) /\ Len(Script[script[p]]) \in 0 .. 4
    BY <1>4 DEF Create
  <2>2. line' \in [Openers -> 1 .. 5]
    <3>1. line[p] + 1 \in 1 .. 5
      BY <2>1
    <3>2. line' = [line EXCEPT ![p] = line[p] + 1]
      BY <1>4 DEF Create
    <3>. QED  BY ONLY <3>1, <3>2, line \in [Openers -> 1 .. 5]
  <2>3. tables' \in [Tables -> {"none", "lacking", "whole"}]
    BY <1>4 DEF Create
  <2>. QED  BY <1>4, <2>2, <2>3 DEF Create
<1>5. ASSUME NEW p \in Openers, ReadVersion(p) PROVE TypeOK'
  <2>1. seen' \in [Openers -> {0} \cup Versions]
    BY <1>5 DEF ReadVersion
  <2>. QED  BY <1>5, <2>1, GoOnType DEF ReadVersion
<1>6. ASSUME NEW p \in Openers, EndMigration(p) PROVE TypeOK'
  <2>1. seen[p] \in {0} \cup Versions /\ script[p] \in Versions
    OBVIOUS
  <2>2. version' \in {0} \cup Versions
    BY <1>6 DEF EndMigration, Recorded
  <2>. QED  BY <1>6, <2>1, <2>2, GoOnType DEF EndMigration
<1>7. ASSUME NEW p \in Openers, Close(p) \/ OpenFails(p) PROVE TypeOK'
  <2>1. Leave(p)
    BY <1>7 DEF Close, OpenFails
  <2>2. failures' \in 0 .. MaxFailures
    BY <1>7, StoreSchemaAssumption DEF Close, OpenFails, StoreSchemaAssumption
  <2>. QED  BY <2>1, <2>2 DEF Leave, Start
<1>8. ASSUME NEW p \in Openers, EndBase(p) PROVE TypeOK'
  BY <1>8 DEF EndBase, Recorded
<1>9. CASE UNCHANGED vars
  BY <1>9 DEF vars
<1>. QED  BY <1>1, <1>2, <1>3, <1>4, <1>5, <1>6, <1>7, <1>8, <1>9 DEF Next

\* The schema's state is always of its type.
THEOREM TypeCorrect == Spec => []TypeOK
<1>1. Init => TypeOK
  BY InitInv DEF IInv
<1>2. TypeOK /\ [Next]_vars => TypeOK'
  BY TypeStep
<1>. QED  BY <1>1, <1>2, PTL DEF Spec

-----------------------------------------------------------------------------
(* Steps that only the schema's makers take *)

\* The tables of a store the runtimes made only grow.
LEMMA TablesGrow ==
  ASSUME IInv, [Next]_vars, maker' = "runtime"
  PROVE  /\ \A t \in Tables : tables[t] = "whole" => tables'[t] = "whole"
         /\ \A t \in Tables : tables'[t] # "lacking"
         /\ \A n \in Versions : HasScript(n) => HasScript(n)'
         /\ maker \in {"nobody", "runtime"}
<1>. USE ScriptType DEF IInv, TypeOK, Made, opener
<1>1. /\ \A t \in Tables : tables[t] = "whole" => tables'[t] = "whole"
      /\ \A t \in Tables : tables'[t] # "lacking"
      /\ maker \in {"nobody", "runtime"}
  <2>1. CASE \E p \in Openers : Create(p)
    BY <2>1 DEF Create
  <2>2. CASE UNCHANGED <<tables, maker>>
    BY <2>2
  <2>3. CASE \E p \in Openers : Open(p)
    BY <2>3 DEF Open
  <2>4. CASE Install \/ InstallTable
    BY <2>4 DEF Install, InstallTable
  <2>. QED  BY <2>1, <2>2, <2>3, <2>4
            DEF Next, vars, InstallVersion, InstallEnds, InstallFails, EndBase, ReadVersion,
                EndMigration, Close, OpenFails, Leave
<1>. QED  BY <1>1 DEF HasScript

\* An opener at the end of a script finds all of it and of the ones before.
LEMMA EndOfScript ==
  ASSUME IInv, maker = "runtime", NEW p \in Openers, AtEnd(p)
  PROVE  \A n \in Versions : n <= script[p] => HasScript(n)
<1>1. Running(p)
  BY DEF IInv, Progress, AtEnd
<1>2. line[p] = Len(Script[script[p]]) + 1 /\ script[p] \in Versions
  BY DEF AtEnd, IInv, TypeOK
<1>3. HasScript(script[p])
  BY <1>1, <1>2, ScriptType DEF Running, HasScript
<1>4. \A n \in Versions : n < script[p] => HasScript(n)
  BY <1>1 DEF Running
<1>. QED  BY <1>2, <1>3, <1>4 DEF Versions

\* Where the loop of _apply_migrations goes.
LEMMA WhereTo ==
  ASSUME NEW p \in Openers, NEW v \in {0} \cup Versions, NEW n \in Versions, GoOn(p, v, n)
  PROVE  \/ \E m \in 2 .. 3 :
              /\ m > n /\ m > v
              /\ \A k \in Versions : k < m => k <= n \/ k <= v
              /\ phase' = [phase EXCEPT ![p] = "running"]
              /\ script' = [script EXCEPT ![p] = m]
              /\ line' = [line EXCEPT ![p] = 1]
         \/ /\ \A k \in Versions : k <= n \/ k <= v
            /\ phase' = [phase EXCEPT ![p] = "open"]
            /\ UNCHANGED <<script, line>>
BY DEF GoOn, Due, Start, Versions

LEMMA MadeStep ==
  ASSUME IInv, [Next]_vars
  PROVE  Made'
<1>. USE DEF IInv, Made, opener
<1>1. ASSUME maker' = "nobody" PROVE version' = 0 /\ \A p \in Openers : phase'[p] = "closed"
  BY <1>1 DEF Next, vars, Install, InstallVersion, InstallTable, InstallEnds, InstallFails,
     Open, Create, EndBase, ReadVersion, EndMigration, Close, OpenFails, Leave, AtEnd
<1>2. installing' # 0 => maker' = "installer"
  BY DEF Next, vars, Install, InstallVersion, InstallTable, InstallEnds, InstallFails,
     Open, Create, EndBase, ReadVersion, EndMigration, Close, OpenFails, Leave
<1>3. ASSUME maker' = "nobody" PROVE tables' = tables
  BY <1>3 DEF Next, vars, Install, InstallVersion, InstallTable, InstallEnds, InstallFails,
     Open, Create, EndBase, ReadVersion, EndMigration, Close, OpenFails, Leave, AtEnd
<1>4. maker' = "nobody" => maker = "nobody"
  BY DEF Next, vars, Install, InstallVersion, InstallTable, InstallEnds, InstallFails,
     Open, Create, EndBase, ReadVersion, EndMigration, Close, OpenFails, Leave
<1>5. maker' \in {"nobody", "runtime", "installer"}
  BY TypeStep DEF TypeOK
<1>. QED  BY <1>1, <1>2, <1>3, <1>4, <1>5, TablesGrow

-----------------------------------------------------------------------------
(* The version and the tables *)

LEMMA VersionStep ==
  ASSUME IInv, [Next]_vars
  PROVE  VersionTellsTables'
<1>. SUFFICES ASSUME maker' = "runtime", NEW n \in Versions, n <= version'
              PROVE  HasScript(n)'
  BY DEF VersionTellsTables
<1>1. maker \in {"nobody", "runtime"} /\ (HasScript(n) => HasScript(n)')
  BY TablesGrow
<1>2. version \in {0} \cup Versions
  BY DEF IInv, TypeOK
<1>3. CASE maker = "nobody"
  <2>1. version' = 0
    BY <1>3 DEF IInv, Made, Next, vars, opener, Install, InstallVersion, InstallTable,
       InstallEnds, InstallFails, Open, Create, EndBase, ReadVersion, EndMigration, Close,
       OpenFails, Leave, AtEnd
  <2>. QED  BY <2>1 DEF Versions
<1>4. ASSUME maker = "runtime", NEW p \in Openers, EndBase(p) \/ EndMigration(p)
      PROVE  HasScript(n)
  <2>1. \A k \in Versions : k <= script[p] => HasScript(k)
    BY <1>4, EndOfScript DEF EndBase, EndMigration
  <2>2. version' \in {version, script[p]}
    BY <1>4 DEF EndBase, EndMigration, Recorded, IInv, TypeOK, Versions
  <2>3. CASE version' = version
    BY <1>4, <2>3 DEF IInv, VersionTellsTables
  <2>. QED  BY <2>1, <2>2, <2>3
<1>5. ASSUME maker = "runtime", UNCHANGED version PROVE HasScript(n)
  BY <1>5 DEF IInv, VersionTellsTables
<1>6. \/ UNCHANGED version
      \/ \E p \in Openers : EndBase(p) \/ EndMigration(p)
      \/ maker # "runtime"
  BY DEF IInv, Made, Next, vars, Install, InstallVersion, InstallTable, InstallEnds,
     InstallFails, Open, Create, ReadVersion, Close, OpenFails, Leave
<1>. QED  BY <1>1, <1>3, <1>4, <1>5, <1>6

LEMMA WholeStep ==
  ASSUME IInv, [Next]_vars
  PROVE  MigratedIsWhole'
<1>. SUFFICES ASSUME maker' = "runtime", NEW p \in Openers, phase'[p] = "open",
                     NEW n \in Versions
              PROVE  HasScript(n)'
  BY DEF MigratedIsWhole, OpenedIsWhole
<1>1. maker \in {"nobody", "runtime"} /\ (HasScript(n) => HasScript(n)')
  BY TablesGrow
<1>2. CASE phase[p] = "open"
  BY <1>1, <1>2 DEF IInv, Made, MigratedIsWhole, OpenedIsWhole
<1>3. CASE phase[p] # "open"
  <2>1. ReadVersion(p) \/ EndMigration(p)
    BY <1>3 DEF IInv, TypeOK, Next, vars, opener, Install, InstallVersion, InstallTable,
       InstallEnds, InstallFails, Open, Create, EndBase, ReadVersion, EndMigration, GoOn,
       Start, Close, OpenFails, Leave
  <2>2. maker = "runtime"
    BY <1>1, <2>1 DEF IInv, Made, ReadVersion, EndMigration, AtEnd
  <2>3. CASE ReadVersion(p)
    <3>1. n <= version
      <4>1. version \in Versions /\ 1 \in Versions
        BY <2>3 DEF ReadVersion, IInv, Progress, TypeOK, Versions
      <4>2. n <= 1 \/ n <= version
        BY <2>3, <4>1, WhereTo DEF ReadVersion, IInv, TypeOK
      <4>. QED  BY <4>1, <4>2 DEF Versions
    <3>. QED  BY <1>1, <2>2, <3>1 DEF IInv, VersionTellsTables
  <2>4. CASE EndMigration(p)
    <3>1. script[p] \in Versions /\ seen[p] \in {0} \cup Versions /\ seen[p] < script[p]
      BY <2>4 DEF EndMigration, AtEnd, IInv, Progress, Running, TypeOK
    <3>2. n <= script[p] \/ n <= seen[p]
      BY <2>4, <3>1, WhereTo DEF EndMigration, IInv, TypeOK
    <3>3. n <= script[p]
      BY <3>1, <3>2 DEF Versions
    <3>. QED  BY <1>1, <2>2, <2>4, <3>3, EndOfScript DEF EndMigration
  <2>. QED  BY <2>1, <2>3, <2>4
<1>. QED  BY <1>2, <1>3

-----------------------------------------------------------------------------
(* The openers *)

OfOpener(q) ==
  /\ phase[q] = "closed" => script[q] = 1 /\ line[q] = 1
  /\ phase[q] = "running" => Running(q)
  /\ phase[q] = "reading" => version >= 1

\* A step of another process disturbs no opener.
LEMMA OthersStep ==
  ASSUME IInv, [Next]_vars, NEW q \in Openers,
         phase'[q] = phase[q], script'[q] = script[q], line'[q] = line[q], seen'[q] = seen[q]
  PROVE  OfOpener(q)'
<1>1. OfOpener(q)
  BY DEF IInv, Progress, OfOpener
<1>2. ASSUME phase[q] = "running" PROVE Running(q)'
  <2>1. Running(q) /\ maker # "nobody"
    BY <1>1, <1>2 DEF OfOpener, IInv, Made
  <2>2. script[q] \in Versions
    BY DEF IInv, TypeOK
  <2>3. ASSUME maker' = "runtime"
        PROVE  /\ \A n \in Versions : n < script[q] => HasScript(n)'
               /\ \A i \in 1 .. Len(Script[script[q]]) :
                    i < line[q] => tables'[Script[script[q]][i]] = "whole"
    <3>1. maker = "runtime"
      BY <2>1, <2>3, TablesGrow
    <3>2. \A i \in 1 .. Len(Script[script[q]]) : Script[script[q]][i] \in Tables
      BY <2>2, ScriptType
    <3>. QED  BY <2>1, <2>3, <3>1, <3>2, TablesGrow DEF Running
  <2>. QED  BY <2>1, <2>3 DEF Running
<1>3. version >= 1 => version' >= 1
  BY DEF IInv, TypeOK, Made, Next, vars, opener, Install, InstallVersion, InstallTable,
     InstallEnds, InstallFails, Open, Create, EndBase, ReadVersion, EndMigration, Close,
     OpenFails, Leave, Recorded, Versions
<1>. QED  BY <1>1, <1>2, <1>3 DEF OfOpener

\* An opener that starts a script has found the ones before it done.
LEMMA Started ==
  ASSUME IInv, [Next]_vars, NEW p \in Openers, ReadVersion(p) \/ EndMigration(p)
  PROVE  OfOpener(p)'
<1>. DEFINE v == IF ReadVersion(p) THEN version ELSE seen[p]
            n == IF ReadVersion(p) THEN 1 ELSE script[p]
<1>1. v \in {0} \cup Versions /\ n \in Versions /\ GoOn(p, v, n)
  BY DEF ReadVersion, EndMigration, IInv, TypeOK, Versions
<1>2. seen'[p] = v
  BY DEF ReadVersion, EndMigration, AtEnd, IInv, TypeOK
<1>3. maker' = maker
  BY DEF ReadVersion, EndMigration
<1>4. ASSUME maker = "runtime", NEW k \in Versions, k <= n \/ k <= v PROVE HasScript(k)
  <2>1. CASE ReadVersion(p)
    <3>1. version >= 1
      BY <2>1 DEF ReadVersion, IInv, Progress
    <3>2. k <= version
      BY <1>4, <2>1, <3>1 DEF IInv, TypeOK, Versions
    <3>. QED  BY <1>4, <3>2 DEF IInv, VersionTellsTables
  <2>2. CASE ~ReadVersion(p)
    <3>1. AtEnd(p) /\ script[p] # 1 /\ phase[p] = "running"
      BY <2>2 DEF EndMigration, AtEnd
    <3>2. seen[p] < script[p]
      BY <3>1 DEF IInv, Progress, Running
    <3>3. k <= script[p]
      BY <1>4, <2>2, <3>2 DEF IInv, TypeOK, Versions
    <3>. QED  BY <1>4, <3>1, <3>3, EndOfScript
  <2>. QED  BY <2>1, <2>2
<1>. HIDE DEF v, n
<1>5. CASE \E m \in 2 .. 3 :
             /\ m > n /\ m > v
             /\ \A k \in Versions : k < m => k <= n \/ k <= v
             /\ phase' = [phase EXCEPT ![p] = "running"]
             /\ script' = [script EXCEPT ![p] = m]
             /\ line' = [line EXCEPT ![p] = 1]
  <2>1. PICK m \in 2 .. 3 :
             /\ m > n /\ m > v
             /\ \A k \in Versions : k < m => k <= n \/ k <= v
             /\ phase' = [phase EXCEPT ![p] = "running"]
             /\ script' = [script EXCEPT ![p] = m]
             /\ line' = [line EXCEPT ![p] = 1]
    BY <1>5
  <2>2. phase'[p] = "running" /\ script'[p] = m /\ line'[p] = 1 /\ m \in Versions
    BY <2>1 DEF IInv, TypeOK, Versions
  <2>3. seen'[p] < script'[p]
    BY <1>1, <1>2, <2>1, <2>2 DEF Versions
  <2>4. line'[p] <= Len(Script[m]) + 1
    BY <2>2, ScriptType
  <2>5. maker' = "runtime" => \A k \in Versions : k < m => HasScript(k)'
    BY <1>3, <1>4, <2>1, TablesGrow
  <2>. QED  BY <2>2, <2>3, <2>4, <2>5 DEF OfOpener, Running
<1>6. CASE phase' = [phase EXCEPT ![p] = "open"]
  BY <1>6 DEF OfOpener, IInv, TypeOK
<1>. QED  BY <1>1, <1>5, <1>6, WhereTo

LEMMA ProgressStep ==
  ASSUME IInv, [Next]_vars
  PROVE  Progress'
<1>. SUFFICES ASSUME NEW q \in Openers PROVE OfOpener(q)'
  BY DEF Progress, OfOpener
<1>. USE DEF IInv, TypeOK
<1>1. CASE Open(q)
  <2>1. phase'[q] = "running" /\ script'[q] = 1 /\ line'[q] = 1
    BY <1>1 DEF Open, Progress, opener
  <2>. QED  BY <2>1, ScriptType DEF OfOpener, Running, Versions
<1>2. CASE Create(q)
  <2>. DEFINE t == Script[script[q]][line[q]]
  <2>1. /\ script[q] \in Versions /\ line[q] \in 1 .. Len(Script[script[q]])
        /\ Len(Script[script[q]]) \in 0 .. 4 /\ t \in Tables
        /\ phase[q] = "running" /\ Running(q)
    BY <1>2, ScriptType DEF Create, Progress
  <2>2. /\ phase'[q] = "running" /\ script'[q] = script[q] /\ line'[q] = line[q] + 1
        /\ seen'[q] = seen[q] /\ maker' = maker
    BY <1>2 DEF Create
  <2>3. ASSUME maker = "runtime"
        PROVE  /\ \A n \in Versions : n < script[q] => HasScript(n)'
               /\ \A i \in 1 .. Len(Script[script[q]]) :
                    i < line[q] + 1 => tables'[Script[script[q]][i]] = "whole"
    <3>1. tables'[t] = "whole"
      BY <1>2, <2>1, <2>3 DEF Create, Made
    <3>2. \A i \in 1 .. Len(Script[script[q]]) : Script[script[q]][i] \in Tables
      BY <2>1, ScriptType
    <3>3. ASSUME NEW i \in 1 .. Len(Script[script[q]]), i < line[q] + 1
          PROVE  tables'[Script[script[q]][i]] = "whole"
      <4>1. i = line[q] \/ i < line[q]
        BY <2>1, <3>3
      <4>. QED  BY <2>1, <2>2, <2>3, <3>1, <3>2, <4>1, TablesGrow DEF Running
    <3>4. \A n \in Versions : n < script[q] => HasScript(n)'
      BY <2>1, <2>2, <2>3, TablesGrow DEF Running
    <3>. QED  BY <3>3, <3>4
  <2>4. line'[q] <= Len(Script[script[q]]) + 1
    BY <2>1, <2>2
  <2>5. Running(q)'
    BY <2>1, <2>2, <2>3, <2>4 DEF Running
  <2>. QED  BY <2>2, <2>5 DEF OfOpener
<1>3. CASE EndBase(q)
  BY <1>3 DEF EndBase, Recorded, OfOpener, Versions
<1>4. CASE ReadVersion(q) \/ EndMigration(q)
  BY <1>4, Started
<1>5. CASE Close(q) \/ OpenFails(q)
  BY <1>5 DEF Close, OpenFails, Leave, Start, OfOpener, Versions
<1>6. CASE UNCHANGED opener
  BY <1>6, OthersStep DEF opener
<1>7. ASSUME NEW p \in Openers, p # q, Open(p) \/ Create(p) \/ EndBase(p) \/ ReadVersion(p)
                                       \/ EndMigration(p) \/ Close(p) \/ OpenFails(p)
      PROVE  OfOpener(q)'
  <2>1. phase'[q] = phase[q] /\ script'[q] = script[q] /\ line'[q] = line[q] /\ seen'[q] = seen[q]
    BY <1>7 DEF Open, Create, EndBase, ReadVersion, EndMigration, GoOn, Close, OpenFails,
       Leave, Start
  <2>. QED  BY <2>1, OthersStep
<1>8. \/ UNCHANGED opener
      \/ \E p \in Openers : Open(p) \/ Create(p) \/ EndBase(p) \/ ReadVersion(p)
                            \/ EndMigration(p) \/ Close(p) \/ OpenFails(p)
  BY DEF Next, vars, opener, Install, InstallVersion, InstallTable, InstallEnds, InstallFails
<1>. QED  BY <1>1, <1>2, <1>3, <1>4, <1>5, <1>6, <1>7, <1>8

-----------------------------------------------------------------------------
(* The theorems *)

\* The inductive invariant holds of every store.
THEOREM Invariance == Spec => []IInv
<1>1. Init => IInv
  BY InitInv
<1>2. IInv /\ [Next]_vars => IInv'
  <2>1. ASSUME IInv, [Next]_vars PROVE IInv'
    BY <2>1, TypeStep, MadeStep, ProgressStep, VersionStep, WholeStep DEF IInv
  <2>. QED  BY <2>1
<1>. QED  BY <1>1, <1>2, PTL DEF Spec

\* A store the runtimes made has the tables of its version: whatever the number of
\* runtimes that open it at once and of openings that fail.
THEOREM VersionTold == Spec => []VersionTellsTables
<1>1. IInv => VersionTellsTables
  BY DEF IInv
<1>. QED  BY <1>1, Invariance, PTL

\* Every runtime that has opened a store the runtimes made finds it whole.
THEOREM OpenedWhole == Spec => []MigratedIsWhole
<1>1. IInv => MigratedIsWhole
  BY DEF IInv
<1>. QED  BY <1>1, Invariance, PTL

-----------------------------------------------------------------------------
(* The units: they open the store as openers do, and may die with it open *)

\* What RuntimeStart promises of the store and the units without the fairness.
StartSafety == StartInit /\ [][StartNext]_startVars

\* A store of an earlier release has the tables of its version, and nobody at work.
LEMMA StartInitInv == StartInit => IInv /\ StartTypeOK
<1>1. CASE StartInit /\ Init
  BY <1>1, InitInv DEF IInv, StartInit, StartTypeOK
<1>2. CASE StartInit /\ ~Init
  <2>1. /\ version \in 1 .. 2 /\ maker = "runtime" /\ installing = 0 /\ failures = 0
        /\ phase = [p \in Openers |-> "closed"] /\ script = [p \in Openers |-> 1]
        /\ line = [p \in Openers |-> 1] /\ seen = [p \in Openers |-> 0]
        /\ unit = [p \in Openers |-> "down"]
    BY <1>2 DEF StartInit
  <2>2. tables = [t \in Tables |->
          IF \E n \in 1 .. version : \E i \in 1 .. Len(Script[n]) : Script[n][i] = t
          THEN "whole" ELSE "none"]
    BY <1>2 DEF StartInit
  <2>3. TypeOK /\ StartTypeOK
    BY <2>1, <2>2, ScriptType, StoreSchemaAssumption
       DEF TypeOK, StartTypeOK, Versions, StoreSchemaAssumption
  <2>4. Made /\ Progress /\ MigratedIsWhole
    BY <2>1, <2>2 DEF Made, Progress, MigratedIsWhole, OpenedIsWhole
  <2>5. ASSUME NEW n \in Versions, n <= version PROVE HasScript(n)
    <3>1. n \in 1 .. version
      BY <2>1, <2>5 DEF Versions
    <3>2. ASSUME NEW i \in 1 .. Len(Script[n]) PROVE tables[Script[n][i]] = "whole"
      BY <2>2, <3>1, ScriptType
    <3>. QED  BY <3>2 DEF HasScript
  <2>. QED  BY <2>3, <2>4, <2>5 DEF IInv, VersionTellsTables
<1>. QED  BY <1>1, <1>2

\* A process that ends gives up its place in a script, wherever that was.
LEMMA LeaveInv ==
  ASSUME IInv, NEW p \in Openers, Leave(p), failures' \in 0 .. MaxFailures
  PROVE  IInv'
<1>. USE DEF IInv, Leave, Start
<1>1. TypeOK'
  BY DEF TypeOK, Versions
<1>2. Made'
  BY DEF TypeOK, Made
<1>3. \A n \in Versions : HasScript(n)' = HasScript(n)
  BY DEF HasScript
<1>4. VersionTellsTables' /\ MigratedIsWhole'
  BY <1>3 DEF TypeOK, VersionTellsTables, MigratedIsWhole, OpenedIsWhole
<1>5. ASSUME NEW q \in Openers PROVE OfOpener(q)'
  <2>1. CASE q = p
    BY <2>1 DEF TypeOK, OfOpener, Versions
  <2>2. CASE q # p
    <3>1. phase'[q] = phase[q] /\ script'[q] = script[q] /\ line'[q] = line[q] /\ seen'[q] = seen[q]
      BY <2>2
    <3>2. Running(q) => Running(q)'
      BY <1>3, <3>1 DEF Running
    <3>. QED  BY <3>1, <3>2 DEF Progress, OfOpener
  <2>. QED  BY <2>1, <2>2
<1>. QED  BY <1>1, <1>2, <1>4, <1>5 DEF Progress, OfOpener

\* A step of the units is one of the schema, but for the death of a runtime that is
\* not opening the store.
LEMMA UnitStep ==
  ASSUME [StartNext]_startVars
  PROVE  [Next]_vars \/ \E p \in Openers : Dies(p)
BY DEF StartNext, startVars, Installs, StartUnit, Passes, Aborts, Opens, Opening, Next

LEMMA StartStep ==
  ASSUME IInv, StartTypeOK, [StartNext]_startVars
  PROVE  IInv' /\ StartTypeOK'
<1>1. ASSUME [Next]_vars PROVE IInv'
  BY <1>1, TypeStep, MadeStep, ProgressStep, VersionStep, WholeStep DEF IInv
<1>2. ASSUME NEW p \in Openers, Dies(p) PROVE IInv'
  <2>1. failures' \in 0 .. MaxFailures
    BY <1>2, StoreSchemaAssumption DEF Dies, IInv, TypeOK, StoreSchemaAssumption
  <2>. QED  BY <1>2, <2>1, LeaveInv DEF Dies
<1>3. IInv'
  BY <1>1, <1>2, UnitStep
<1>4. unit' \in [Openers -> {"down", "checking", "running", "failed"}]
  BY DEF StartTypeOK, StartNext, startVars, Installs, StartUnit, Passes, Aborts, Dies, Opens
<1>. QED  BY <1>3, <1>4 DEF StartTypeOK, IInv

LEMMA StartInvariance == StartSafety => [](IInv /\ StartTypeOK)
<1>. QED  BY StartInitInv, StartStep, PTL DEF StartSafety

\* Over stores of any earlier release, with the checks before each start, and runtimes
\* that die at any statement: a store the runtimes made has the tables of its version,
\* and is whole for every one that has opened it.
THEOREM StartsKeepTheStore == StartSpec => [](VersionTellsTables /\ MigratedIsWhole)
<1>1. StartSpec => StartSafety
  BY PTL DEF StartSpec, StartSafety
<1>2. IInv => VersionTellsTables /\ MigratedIsWhole
  BY DEF IInv
<1>. QED  BY <1>1, <1>2, StartInvariance, PTL

\* Nobody is up over a store that is not the newest, and no installer is at work.
Stuck ==
  /\ version # 3 /\ maker # "nobody" /\ installing = 0
  /\ \A p \in Openers : unit[p] # "running"

LEMMA StuckStep ==
  ASSUME Stuck, StartTypeOK, [StartNext]_startVars
  PROVE  Stuck'
<1>. USE DEF Stuck, StartTypeOK, vars
<1>1. CASE Installs
  BY <1>1 DEF Installs, Install, InstallVersion, InstallTable, InstallEnds, InstallFails,
     InstallScript
<1>2. ASSUME NEW p \in Openers, StartUnit(p) \/ Aborts(p) PROVE Stuck'
  BY <1>2 DEF StartUnit, Aborts
<1>3. ASSUME NEW p \in Openers, Passes(p) \/ Dies(p) \/ Opens(p) PROVE FALSE
  BY <1>3 DEF Passes, VersionFits, Dies, Opens
<1>4. CASE UNCHANGED startVars
  BY <1>4 DEF startVars
<1>. QED  BY <1>1, <1>2, <1>3, <1>4 DEF StartNext

\* A store of an earlier release is never migrated, whatever the operator and systemd
\* do and however the files of the runtimes fit: each start waits for the migration
\* that waits for a start.  The fairness of StartSpec does not help.
THEOREM OldStoreIsNeverMigrated == StartSpec /\ version \in 1 .. 2 => ~StoreIsMigrated
<1>1. StartSpec => StartSafety
  BY PTL DEF StartSpec, StartSafety
<1>2. StartInit /\ version \in 1 .. 2 => Stuck
  BY DEF StartInit, Init, Stuck
<1>3. Stuck /\ StartTypeOK /\ [StartNext]_startVars => Stuck'
  BY StuckStep
<1>4. Stuck => ~(version = 3)
  BY DEF Stuck
<1>. QED  BY <1>1, <1>2, <1>3, <1>4, StartInvariance, PTL DEF StartSafety, StoreIsMigrated

=============================================================================
