---------------------------- MODULE LaunchProofs ----------------------------
(***************************************************************************)
(* For any number of starts, accounts and any faults: the type invariant,  *)
(* one daemon at a time, role numbers that are not shared, and that        *)
(* nothing is in the way of a start that finds nothing in its way.         *)
(***************************************************************************)
EXTENDS Launch, TLAPS

Phases == {"none", "lock", "fork", "bind", "count", "serve", "exit", "gone"}

LEMMA ProcessIsPair ==
  ASSUME NEW x \in Process
  PROVE  x[1] \in Starts /\ x[2] \in 1 .. 3 /\ x = <<x[1], x[2]>>
BY DEF Process

LEMMA PairIsProcess ==
  ASSUME NEW p \in Starts, NEW g \in 1 .. 3
  PROVE  <<p, g>> \in Process /\ <<p, g>>[1] = p /\ <<p, g>>[2] = g
BY DEF Process

LEMMA SamePair ==
  ASSUME NEW x \in Process, NEW y \in Process, x[1] = y[1], x[2] = y[2]
  PROVE  x = y
BY ProcessIsPair

LEMMA ChildIsProcess ==
  ASSUME NEW x \in Process, x[2] # 3
  PROVE  LET child == <<x[1], x[2] + 1>> IN
         child \in Process /\ child[1] = x[1] /\ child[2] = x[2] + 1 /\ child # x
<1>1. x[1] \in Starts /\ x[2] \in 1 .. 3 BY ProcessIsPair
<1>2. x[2] + 1 \in 1 .. 3 /\ x[2] + 1 # x[2] BY <1>1
<1>3. <<x[1], x[2] + 1>> \in Process BY <1>1, <1>2 DEF Process
<1>4. <<x[1], x[2] + 1>>[2] = x[2] + 1 OBVIOUS
<1> QED BY <1>2, <1>3, <1>4

-----------------------------------------------------------------------------
(* Types.                                                                  *)

\* Children come after their parents, daemons among the starts made, and only
\* daemons lock and fork.
Shape ==
  /\ daemons \subseteq 1 .. started
  /\ \A x \in Process :
       /\ x[1] > started => pc[x] = "none"
       /\ pc[x] \in {"lock", "fork"} => x[1] \in daemons /\ x[2] # 3
       /\ pc[x] = "lock" => x[2] = 1
  /\ \A x, y \in Process :
       x[1] = y[1] /\ x[2] < y[2] /\ pc[x] \in {"none", "lock", "fork"}
         => pc[y] = "none"

\* Only servers have sent a statement, with the number after their counter.
Sent ==
  \A x \in Process : statement[x] # NoStatement =>
    /\ pc[x] \in {"serve", "gone"}
    /\ ~Dead(x) => statement[x] = mRegisterPlayerNum[x] + 1

TypeInv == TypeOK /\ Shape /\ Sent

LEMMA TypeInit == Init => TypeInv
<1> SUFFICES ASSUME Init PROVE TypeInv OBVIOUS
<1>1. TypeOK
  <2>1. accounts \in Seq(1 .. MaxAccounts) /\ Len(accounts) = 0
    BY DEF Init
  <2>2. 0 \in 0 .. MaxAccounts /\ 0 \in 0 .. MaxStarts BY LaunchAssumption
  <2>3. Len(accounts) <= MaxAccounts BY <2>1, LaunchAssumption
  <2> QED BY <2>1, <2>2, <2>3 DEF Init, TypeOK, NoStatement
<1>2. Shape BY DEF Init, Shape
<1>3. Sent BY DEF Init, Sent
<1> QED BY <1>1, <1>2, <1>3 DEF TypeInv

LEMMA BeginType ==
  ASSUME TypeInv, NEW d \in BOOLEAN, Begin(d),
         script' \in {"idle", "kill", "start"}, found' \subseteq Process
  PROVE  TypeInv'
<1> DEFINE p == started + 1
           first == <<p, 1>>
           next == IF d THEN "lock" ELSE "bind"
<1>1. p \in Starts /\ started' = p /\ started \in Nat
  BY LaunchAssumption DEF TypeInv, TypeOK, Begin, Starts
<1>2. first \in Process /\ first[1] = p /\ first[2] = 1
  <2>1. 1 \in 1 .. 3 OBVIOUS
  <2> HIDE DEF p
  <2>2. first = <<p, 1>> OBVIOUS
  <2> QED BY <1>1, <2>1, <2>2, PairIsProcess
<1>3. pc' = [pc EXCEPT ![first] = next] /\ next \in {"lock", "bind"}
  BY DEF Begin
<1>4. pc \in [Process -> Phases] BY DEF TypeInv, TypeOK, Phases
<1>5. \A x \in Process : x[1] = p => pc[x] = "none"
  BY <1>1, ProcessIsPair DEF TypeInv, Shape, Starts
<1>6. /\ pc' \in [Process -> Phases]
      /\ \A x \in Process : pc'[x] = IF x = first THEN next ELSE pc[x]
  BY <1>2, <1>3, <1>4 DEF Phases
<1>7. Alive \subseteq Alive' BY <1>3, <1>6 DEF Alive
<1>8. daemons' \subseteq daemons \cup {p} /\ daemons \subseteq daemons'
      /\ (next = "lock" => p \in daemons')
  BY DEF Begin
<1> HIDE DEF p, first, next
<1>9. TypeOK'
  <2>1. daemons' \subseteq Starts BY <1>1, <1>8 DEF TypeInv, TypeOK
  <2>2. started' \in 0 .. MaxStarts BY <1>1 DEF Starts
  <2>3. clear' \subseteq Starts BY <1>1 DEF Begin, p
  <2> QED BY <1>6, <1>7, <2>1, <2>2, <2>3
          DEF TypeInv, TypeOK, Begin, Phases, table
<1>10. Shape'
  <2>1. daemons' \subseteq 1 .. started'
    BY <1>1, <1>8 DEF TypeInv, Shape, p
  <2>2. ASSUME NEW x \in Process
        PROVE  /\ x[1] > started' => pc'[x] = "none"
               /\ pc'[x] \in {"lock", "fork"} => x[1] \in daemons' /\ x[2] # 3
               /\ pc'[x] = "lock" => x[2] = 1
    <3>1. CASE x = first
      BY <1>1, <1>2, <1>3, <1>6, <1>8, <3>1 DEF p
    <3>2. CASE x # first
      BY <1>1, <1>6, <1>8, <3>2, ProcessIsPair DEF TypeInv, Shape, p, Starts
    <3> QED BY <3>1, <3>2
  <2>3. ASSUME NEW x \in Process, NEW y \in Process,
               x[1] = y[1], x[2] < y[2], pc'[x] \in {"none", "lock", "fork"}
        PROVE  pc'[y] = "none"
    <3>1. x[2] \in 1 .. 3 /\ y[2] \in 1 .. 3 BY ProcessIsPair
    <3>2. y # first BY <1>2, <2>3, <3>1
    <3>3. pc'[y] = pc[y] BY <1>6, <3>2
    <3>4. CASE x = first BY <1>2, <1>5, <2>3, <3>3, <3>4
    <3>5. CASE x # first BY <1>6, <2>3, <3>3, <3>5 DEF TypeInv, Shape
    <3> QED BY <3>4, <3>5
  <2> QED BY <2>1, <2>2, <2>3 DEF Shape
<1>11. Sent'
  <2>1. UNCHANGED <<statement, mRegisterPlayerNum, doomed>> BY DEF Begin, table
  <2>2. ASSUME NEW x \in Process, statement[x] # NoStatement
        PROVE  pc'[x] = pc[x] /\ pc[x] \in {"serve", "gone"}
               /\ (~Dead(x) => statement[x] = mRegisterPlayerNum[x] + 1)
    BY <1>2, <1>5, <1>6, <2>2 DEF TypeInv, Sent
  <2> QED BY <2>1, <2>2 DEF Sent, Dead
<1> QED BY <1>9, <1>10, <1>11 DEF TypeInv

\* a step that only moves x on, from one phase to another alive one
LEMMA MoveType ==
  ASSUME TypeInv, NEW x \in Process, NEW next \in {"fork", "count", "exit"},
         Goes(x, next),
         pc[x] \in {"lock", "fork", "bind", "count"},
         next = "fork" => pc[x] = "lock",
         UNCHANGED <<daemons, started, lingering, doomed, table, scripts>>,
         holders' \subseteq holders \cup {x},
         listening' \subseteq listening \cup {x}, clear' \subseteq clear
  PROVE  TypeInv'
<1>1. pc \in [Process -> Phases] BY DEF TypeInv, TypeOK, Phases
<1>2. /\ pc' \in [Process -> Phases]
      /\ \A y \in Process : pc'[y] = IF y = x THEN next ELSE pc[y]
  BY <1>1 DEF Goes, Phases
<1>3. Alive \subseteq Alive' /\ x \in Alive' BY <1>2 DEF Alive
<1>4. TypeOK'
  BY <1>2, <1>3 DEF TypeInv, TypeOK, Phases, table, scripts
<1>5. Shape'
  <2>1. UNCHANGED <<daemons, started>> OBVIOUS
  <2>2. ASSUME NEW y \in Process
        PROVE  /\ y[1] > started => pc'[y] = "none"
               /\ pc'[y] \in {"lock", "fork"} => y[1] \in daemons /\ y[2] # 3
               /\ pc'[y] = "lock" => y[2] = 1
    BY <1>2 DEF TypeInv, Shape
  <2>3. ASSUME NEW y \in Process, NEW z \in Process,
               y[1] = z[1], y[2] < z[2], pc'[y] \in {"none", "lock", "fork"}
        PROVE  pc'[z] = "none"
    <3>1. pc[y] \in {"none", "lock", "fork"} BY <1>2, <2>3
    <3>2. pc[z] = "none" BY <2>3, <3>1 DEF TypeInv, Shape
    <3> QED BY <1>2, <3>2
  <2> QED BY <2>1, <2>2, <2>3 DEF TypeInv, Shape
<1>6. Sent'
  <2>1. UNCHANGED <<statement, mRegisterPlayerNum, doomed>> BY DEF table
  <2>2. ASSUME NEW y \in Process, statement[y] # NoStatement
        PROVE  pc'[y] = pc[y] /\ pc[y] \in {"serve", "gone"}
               /\ (~Dead(y) => statement[y] = mRegisterPlayerNum[y] + 1)
    BY <1>2, <2>2 DEF TypeInv, Sent
  <2> QED BY <2>1, <2>2 DEF Sent, Dead
<1> QED BY <1>4, <1>5, <1>6 DEF TypeInv

\* the new state when the process x is gone
LEMMA GoneType ==
  ASSUME TypeInv, NEW x \in Process, pc[x] \in {"exit", "serve"} \/ x \in doomed,
         Gone(x)
  PROVE  TypeInv'
<1>1. pc \in [Process -> Phases] BY DEF TypeInv, TypeOK, Phases
<1>2. /\ pc' \in [Process -> Phases]
      /\ \A y \in Process : pc'[y] = IF y = x THEN "gone" ELSE pc[y]
  BY <1>1 DEF Gone, Goes, Phases
<1>3. Alive \ {x} \subseteq Alive' BY <1>2 DEF Alive
<1>4. TypeOK'
  <2>1. 0 \in 0 .. MaxAccounts BY LaunchAssumption
  <2> QED BY <1>2, <1>3, <2>1 DEF TypeInv, TypeOK, Phases, Gone, Closed
<1>5. Shape'
  <2>1. UNCHANGED <<daemons, started>> BY DEF Gone
  <2>2. pc[x] # "none" BY DEF TypeInv, TypeOK, Alive
  <2>3. ASSUME NEW y \in Process
        PROVE  /\ y[1] > started => pc'[y] = "none"
               /\ pc'[y] \in {"lock", "fork"} => y[1] \in daemons /\ y[2] # 3
               /\ pc'[y] = "lock" => y[2] = 1
    BY <1>2, <2>2 DEF TypeInv, Shape
  <2>4. ASSUME NEW y \in Process, NEW z \in Process,
               y[1] = z[1], y[2] < z[2], pc'[y] \in {"none", "lock", "fork"}
        PROVE  pc'[z] = "none"
    <3>1. pc[y] \in {"none", "lock", "fork"} BY <1>2, <2>4
    <3>2. pc[z] = "none" BY <2>4, <3>1 DEF TypeInv, Shape
    <3> QED BY <1>2, <2>2, <3>2
  <2> QED BY <2>1, <2>3, <2>4 DEF TypeInv, Shape
<1>6. Sent'
  <2>1. statement' = statement /\ doomed' = doomed \ {x} BY DEF Gone
  <2>2. ASSUME NEW y \in Process, statement[y] # NoStatement
        PROVE  /\ pc'[y] \in {"serve", "gone"}
               /\ ~Dead(y)' => statement[y] = mRegisterPlayerNum'[y] + 1
    <3>1. pc[y] \in {"serve", "gone"}
          /\ (~Dead(y) => statement[y] = mRegisterPlayerNum[y] + 1)
      BY <2>2 DEF TypeInv, Sent
    <3>2. CASE y = x BY <1>2, <3>2 DEF Dead
    <3>3. CASE y # x
      <4>1. pc'[y] = pc[y] BY <1>2, <3>3
      <4>2. mRegisterPlayerNum'[y] = mRegisterPlayerNum[y]
        BY <3>3 DEF Gone, TypeInv, TypeOK
      <4> QED BY <2>1, <3>1, <3>3, <4>1, <4>2 DEF Dead
    <3> QED BY <3>2, <3>3
  <2> QED BY <2>1, <2>2 DEF Sent
<1> QED BY <1>4, <1>5, <1>6 DEF TypeInv

\* fork() with a child
LEMMA ForkType ==
  ASSUME TypeInv, NEW x \in Process, NEW child, child = <<x[1], x[2] + 1>>,
         pc[x] = "fork",
         pc' = [pc EXCEPT ![x] = "exit",
                          ![child] = IF x[2] = 1 THEN "fork" ELSE "bind"],
         holders' = Inherited(x, child),
         UNCHANGED <<daemons, started, listening, lingering, doomed, table,
                     clear, scripts>>
  PROVE  TypeInv'
<1> DEFINE next == IF x[2] = 1 THEN "fork" ELSE "bind"
<1>1. /\ child \in Process /\ child # x /\ x[2] \in 1 .. 3
      /\ child[1] = x[1] /\ child[2] = x[2] + 1 /\ x[2] # 3
  BY ChildIsProcess, ProcessIsPair DEF TypeInv, Shape
<1>2. pc \in [Process -> Phases] BY DEF TypeInv, TypeOK, Phases
<1>3. /\ pc' \in [Process -> Phases]
      /\ \A y \in Process : pc'[y] = IF y = child THEN next
                                     ELSE IF y = x THEN "exit" ELSE pc[y]
  BY <1>1, <1>2 DEF Phases
<1>4. pc[child] = "none"
  <2>1. x[1] = child[1] /\ x[2] < child[2] BY <1>1
  <2> QED BY <1>1, <2>1 DEF TypeInv, Shape
<1>5. next \in {"fork", "bind"} /\ (next = "fork" => child[2] # 3)
  BY <1>1
<1> HIDE DEF next
<1>6. Alive \cup {child} \subseteq Alive' BY <1>1, <1>3, <1>5 DEF Alive
<1>7. TypeOK'
  BY <1>3, <1>6 DEF TypeInv, TypeOK, Phases, Inherited, table, scripts
<1>8. Shape'
  <2>1. UNCHANGED <<daemons, started>> OBVIOUS
  <2>2. x[1] \in daemons /\ ~(x[1] > started)
    BY DEF TypeInv, Shape
  <2>3. ASSUME NEW y \in Process
        PROVE  /\ y[1] > started => pc'[y] = "none"
               /\ pc'[y] \in {"lock", "fork"} => y[1] \in daemons /\ y[2] # 3
               /\ pc'[y] = "lock" => y[2] = 1
    <3>1. CASE y = child BY <1>1, <1>3, <1>5, <2>2, <3>1
    <3>2. CASE y # child BY <1>3, <2>2, <3>2 DEF TypeInv, Shape
    <3> QED BY <3>1, <3>2
  <2>4. ASSUME NEW y \in Process, NEW z \in Process,
               y[1] = z[1], y[2] < z[2], pc'[y] \in {"none", "lock", "fork"}
        PROVE  pc'[z] = "none"
    <3>1. y[2] \in 1 .. 3 /\ z[2] \in 1 .. 3 BY ProcessIsPair
    <3>2. y # x BY <1>1, <1>3, <2>4
    <3>3. CASE y = child
      <4>1. x[1] = z[1] /\ x[2] < z[2] BY <1>1, <2>4, <3>1, <3>3
      <4>2. pc[z] = "none" BY <4>1 DEF TypeInv, Shape
      <4>3. z # child /\ z # x BY <2>4, <3>1, <3>3, <4>1
      <4> QED BY <1>3, <4>2, <4>3
    <3>4. CASE y # child
      <4>1. pc[y] \in {"none", "lock", "fork"} BY <1>3, <2>4, <3>2, <3>4
      <4>2. pc[z] = "none" BY <2>4, <4>1 DEF TypeInv, Shape
      <4>3. z # x BY <4>2
      <4>4. z # child
        <5> SUFFICES ASSUME z = child PROVE FALSE OBVIOUS
        <5>1. y[1] = x[1] /\ y[2] < x[2] + 1 BY <1>1, <2>4
        <5>2. y[2] < x[2]
          <6>1. y[2] # x[2] BY <3>2, <5>1, SamePair
          <6> QED BY <1>1, <3>1, <5>1, <6>1
        <5>3. pc[x] = "none" BY <4>1, <5>1, <5>2 DEF TypeInv, Shape
        <5> QED BY <5>3
      <4> QED BY <1>3, <4>2, <4>3, <4>4
    <3> QED BY <3>3, <3>4
  <2> QED BY <2>1, <2>3, <2>4 DEF TypeInv, Shape
<1>9. Sent'
  <2>1. UNCHANGED <<statement, mRegisterPlayerNum, doomed>> BY DEF table
  <2>2. ASSUME NEW y \in Process, statement[y] # NoStatement
        PROVE  pc'[y] = pc[y] /\ pc[y] \in {"serve", "gone"}
               /\ (~Dead(y) => statement[y] = mRegisterPlayerNum[y] + 1)
    BY <1>3, <1>4, <2>2 DEF TypeInv, Sent
  <2> QED BY <2>1, <2>2 DEF Sent, Dead
<1> QED BY <1>7, <1>8, <1>9 DEF TypeInv

\* InitSceneData: the accounts are counted
LEMMA CountType ==
  ASSUME TypeInv, NEW x \in Process, pc[x] = "count", Goes(x, "serve"),
         mRegisterPlayerNum' = [mRegisterPlayerNum EXCEPT ![x] = Len(accounts)],
         missed' = (missed \/ Overtaken), UNCHANGED clear,
         UNCHANGED <<daemons, started, holders, listening, lingering, doomed,
                     statement, accounts, uncounted, scripts>>
  PROVE  TypeInv'
<1>1. pc \in [Process -> Phases] BY DEF TypeInv, TypeOK, Phases
<1>2. /\ pc' \in [Process -> Phases]
      /\ \A y \in Process : pc'[y] = IF y = x THEN "serve" ELSE pc[y]
  BY <1>1 DEF Goes, Phases
<1>3. Alive \subseteq Alive' BY <1>2 DEF Alive
<1>4. TypeOK'
  <2>1. Len(accounts) \in 0 .. MaxAccounts
    BY LaunchAssumption DEF TypeInv, TypeOK
  <2>2. missed' \in BOOLEAN BY DEF TypeInv, TypeOK
  <2> QED BY <1>2, <1>3, <2>1, <2>2 DEF TypeInv, TypeOK, Phases, scripts
<1>5. Shape'
  <2>1. UNCHANGED <<daemons, started>> OBVIOUS
  <2>2. ASSUME NEW y \in Process
        PROVE  /\ y[1] > started => pc'[y] = "none"
               /\ pc'[y] \in {"lock", "fork"} => y[1] \in daemons /\ y[2] # 3
               /\ pc'[y] = "lock" => y[2] = 1
    BY <1>2 DEF TypeInv, Shape
  <2>3. ASSUME NEW y \in Process, NEW z \in Process,
               y[1] = z[1], y[2] < z[2], pc'[y] \in {"none", "lock", "fork"}
        PROVE  pc'[z] = "none"
    <3>1. pc[y] \in {"none", "lock", "fork"} BY <1>2, <2>3
    <3>2. pc[z] = "none" BY <2>3, <3>1 DEF TypeInv, Shape
    <3> QED BY <1>2, <3>2
  <2> QED BY <2>1, <2>2, <2>3 DEF TypeInv, Shape
<1>6. Sent'
  <2>1. ASSUME NEW y \in Process, statement[y] # NoStatement
        PROVE  /\ pc'[y] \in {"serve", "gone"}
               /\ ~Dead(y)' => statement[y] = mRegisterPlayerNum'[y] + 1
    <3>1. y # x /\ pc'[y] = pc[y] BY <1>2, <2>1 DEF TypeInv, Sent
    <3>2. mRegisterPlayerNum'[y] = mRegisterPlayerNum[y]
      BY <3>1 DEF TypeInv, TypeOK
    <3> QED BY <2>1, <3>1, <3>2 DEF TypeInv, Sent, Dead
  <2> QED BY <2>1 DEF Sent
<1> QED BY <1>4, <1>5, <1>6 DEF TypeInv

LEMMA RegisterType ==
  ASSUME TypeInv, NEW x \in Process, Register(x)
  PROVE  TypeInv'
<1>1. UNCHANGED <<pc, daemons, started, holders, listening, lingering, doomed,
                  script, found, mRegisterPlayerNum, accounts, missed,
                  uncounted, clear>>
  BY DEF Register, processes, scripts
<1>2. /\ statement' = [statement EXCEPT ![x] = mRegisterPlayerNum[x] + 1]
      /\ pc[x] = "serve" /\ x \notin doomed
      /\ mRegisterPlayerNum[x] < MaxAccounts
  BY DEF Register
<1>3. mRegisterPlayerNum[x] + 1 \in 0 .. MaxAccounts
  BY <1>2, LaunchAssumption DEF TypeInv, TypeOK
<1>4. TypeOK' BY <1>1, <1>2, <1>3 DEF TypeInv, TypeOK, Alive
<1>5. Shape' BY <1>1 DEF TypeInv, Shape
<1>6. Sent'
  <2>1. ASSUME NEW y \in Process, statement'[y] # NoStatement
        PROVE  /\ pc[y] \in {"serve", "gone"}
               /\ ~Dead(y) => statement'[y] = mRegisterPlayerNum[y] + 1
    BY <1>2, <2>1 DEF TypeInv, TypeOK, Sent
  <2> QED BY <1>1, <2>1 DEF Sent, Dead
<1> QED BY <1>4, <1>5, <1>6 DEF TypeInv

LEMMA ExecuteType ==
  ASSUME TypeInv, NEW x \in Process, Execute(x)
  PROVE  TypeInv'
<1>1. UNCHANGED <<pc, daemons, started, holders, listening, lingering, doomed,
                  script, found, missed, clear>>
  BY DEF Execute, processes, scripts
<1>2. /\ statement[x] # NoStatement
      /\ statement' = [statement EXCEPT ![x] = NoStatement]
      /\ Counted(x) \/ WrittenNotCounted(x) \/ NotWritten(x)
  BY DEF Execute
<1>3. statement[x] \in 1 .. MaxAccounts
  BY <1>2, LaunchAssumption DEF TypeInv, TypeOK, NoStatement
<1>4. ASSUME AccountWritten(x)
      PROVE  /\ accounts' \in Seq(1 .. MaxAccounts) /\ Len(accounts') <= MaxAccounts
             /\ Len(accounts) + 1 \in DOMAIN accounts'
             /\ DOMAIN accounts \subseteq DOMAIN accounts'
  <2>1. /\ accounts \in Seq(1 .. MaxAccounts) /\ Len(accounts) < MaxAccounts
        /\ accounts' = Append(accounts, statement[x])
    BY <1>4 DEF AccountWritten, TypeInv, TypeOK
  <2>2. accounts' \in Seq(1 .. MaxAccounts) /\ Len(accounts') = Len(accounts) + 1
    BY <1>3, <2>1
  <2>3. DOMAIN accounts = 1 .. Len(accounts) /\ DOMAIN accounts' = 1 .. Len(accounts')
    BY <2>1, <2>2
  <2> QED BY <2>1, <2>2, <2>3, LaunchAssumption
<1>5. mRegisterPlayerNum' \in [Process -> 0 .. MaxAccounts]
  <2>1. CASE UNCHANGED mRegisterPlayerNum BY <2>1 DEF TypeInv, TypeOK
  <2>2. CASE Counted(x) /\ ~Dead(x)
    <3>1. mRegisterPlayerNum[x] + 1 \in 0 .. MaxAccounts
      BY <1>2, <1>3, <2>2, LaunchAssumption DEF TypeInv, TypeOK, Sent
    <3> QED BY <2>2, <3>1 DEF Counted, TypeInv, TypeOK
  <2> QED BY <1>2, <2>1, <2>2 DEF Counted, WrittenNotCounted, NotWritten
<1>6. statement' \in [Process -> 0 .. MaxAccounts]
  BY <1>2, LaunchAssumption DEF TypeInv, TypeOK, NoStatement
<1>7. /\ accounts' \in Seq(1 .. MaxAccounts) /\ Len(accounts') <= MaxAccounts
      /\ uncounted' \subseteq DOMAIN accounts'
  <2>1. CASE Counted(x) BY <1>4, <2>1 DEF Counted, TypeInv, TypeOK
  <2>2. CASE WrittenNotCounted(x)
    BY <1>4, <2>2 DEF WrittenNotCounted, TypeInv, TypeOK
  <2>3. CASE NotWritten(x) BY <2>3 DEF NotWritten, TypeInv, TypeOK
  <2> QED BY <1>2, <2>1, <2>2, <2>3
<1>8. TypeOK' BY <1>1, <1>5, <1>6, <1>7 DEF TypeInv, TypeOK, Alive
<1>9. Shape' BY <1>1 DEF TypeInv, Shape
<1>10. Sent'
  <2>1. ASSUME NEW y \in Process, statement'[y] # NoStatement
        PROVE  /\ pc[y] \in {"serve", "gone"}
               /\ ~Dead(y) => statement'[y] = mRegisterPlayerNum'[y] + 1
    <3>1. y # x /\ statement'[y] = statement[y]
      BY <1>2, <2>1 DEF TypeInv, TypeOK
    <3>2. mRegisterPlayerNum'[y] = mRegisterPlayerNum[y]
      BY <1>2, <3>1 DEF Counted, WrittenNotCounted, NotWritten, TypeInv, TypeOK
    <3> QED BY <2>1, <3>1, <3>2 DEF TypeInv, Sent
  <2> QED BY <1>1, <2>1 DEF Sent, Dead
<1> QED BY <1>8, <1>9, <1>10 DEF TypeInv

LEMMA KillType == TypeInv /\ Kill => TypeInv'
<1> SUFFICES ASSUME TypeInv, Kill PROVE TypeInv' OBVIOUS
<1>1. UNCHANGED <<pc, daemons, started, holders, listening, lingering,
                  mRegisterPlayerNum, statement, accounts, missed, uncounted>>
  BY DEF Kill, table
<1>2. TypeOK' BY <1>1 DEF Kill, TypeInv, TypeOK, Alive
<1>3. Shape' BY <1>1 DEF TypeInv, Shape
<1>4. Sent'
  <2>1. ASSUME NEW y \in Process, ~Dead(y)' PROVE ~Dead(y)
    BY <1>1, <2>1 DEF Kill, Dead
  <2> QED BY <1>1, <2>1 DEF TypeInv, Sent
<1> QED BY <1>2, <1>3, <1>4 DEF TypeInv

LEMMA RestType ==
  TypeInv /\ (Ps \/ Expire \/ UNCHANGED vars) => TypeInv'
<1> SUFFICES ASSUME TypeInv, Ps \/ Expire \/ UNCHANGED vars PROVE TypeInv'
  OBVIOUS
<1>1. UNCHANGED <<pc, daemons, started, holders, listening, doomed,
                  mRegisterPlayerNum, statement, accounts, missed, uncounted,
                  clear>>
  BY DEF Ps, Expire, vars, processes, scripts, table
<1>2. TypeOK'
  <2>1. CASE Ps
    BY <1>1, <2>1 DEF Ps, TypeInv, TypeOK, Alive, processes
  <2>2. CASE Expire
    BY <1>1, <2>2 DEF Expire, TypeInv, TypeOK, Alive, scripts
  <2>3. CASE UNCHANGED vars
    BY <1>1, <2>3 DEF vars, TypeInv, TypeOK, Alive, processes, scripts
  <2> QED BY <2>1, <2>2, <2>3
<1>3. Shape' BY <1>1 DEF TypeInv, Shape
<1>4. Sent' BY <1>1 DEF TypeInv, Sent, Dead
<1> QED BY <1>2, <1>3, <1>4 DEF TypeInv

LEMMA TypeNext == TypeInv /\ [Next]_vars => TypeInv'
<1> SUFFICES ASSUME TypeInv, [Next]_vars PROVE TypeInv' OBVIOUS
<1>1. ASSUME NEW x \in Process, Main(x) PROVE TypeInv'
  <2> USE <1>1
  <2>1. CASE Lock(x) /\ UNCHANGED scripts
    <3>1. CASE holders = {}
      <4>1. Goes(x, "fork") /\ holders' = {x} BY <2>1, <3>1 DEF Lock
      <4> QED BY <2>1, <4>1, MoveType DEF Lock
    <3>2. CASE holders # {}
      <4>1. Goes(x, "exit") /\ holders' = holders BY <2>1, <3>2 DEF Lock
      <4> QED BY <2>1, <4>1, MoveType DEF Lock
    <3> QED BY <3>1, <3>2
  <2>2. CASE Fork(x) /\ UNCHANGED scripts
    <3> DEFINE child == <<x[1], x[2] + 1>>
    <3>1. CASE /\ pc' = [pc EXCEPT ![x] = "exit",
                            ![child] = IF x[2] = 1 THEN "fork" ELSE "bind"]
               /\ holders' = Inherited(x, child)
               /\ UNCHANGED clear
      <4> HIDE DEF child
      <4>1. child = <<x[1], x[2] + 1>> BY DEF child
      <4> QED BY <2>2, <3>1, <4>1, ForkType DEF Fork
    <3>2. CASE Goes(x, "exit") /\ clear' = clear \ {x[1]} /\ UNCHANGED holders
      <4>1. /\ pc[x] = "fork"
            /\ UNCHANGED <<daemons, started, listening, lingering, doomed, table>>
        BY <2>2 DEF Fork
      <4> QED BY <2>2, <3>2, <4>1, MoveType
    <3> QED BY <2>2, <3>1, <3>2 DEF Fork
  <2>3. CASE Bind(x) /\ UNCHANGED scripts
    <3>1. listening' \subseteq listening \cup {x} BY <2>3 DEF Bind
    <3> QED BY <2>3, <3>1, MoveType DEF Bind
  <2>4. CASE InitSceneData(x) /\ UNCHANGED scripts
    <3>1. CASE Goes(x, "serve") /\ mRegisterPlayerNum' = [mRegisterPlayerNum EXCEPT ![x] = Len(accounts)]
               /\ missed' = (missed \/ Overtaken) /\ UNCHANGED clear
      BY <2>4, <3>1, CountType DEF InitSceneData
    <3>2. CASE Goes(x, "exit") /\ clear' = clear \ {x[1]}
               /\ UNCHANGED <<mRegisterPlayerNum, missed>>
      BY <2>4, <3>2, MoveType DEF InitSceneData, table
    <3> QED BY <2>4, <3>1, <3>2 DEF InitSceneData
  <2>5. CASE Exit(x) BY <2>5, GoneType DEF Exit
  <2> QED BY <2>1, <2>2, <2>3, <2>4, <2>5 DEF Main
<1>2. ASSUME NEW x \in Process, ClientLeaves(x) PROVE TypeInv'
  BY <1>2, GoneType DEF ClientLeaves
<1>3. ASSUME NEW x \in Process, Die(x) PROVE TypeInv'
  BY <1>3, GoneType DEF Die
<1>4. CASE Restart
  <2>1. script' \in {"idle", "kill", "start"} /\ found' \subseteq Process
    BY <1>4 DEF Restart, TypeInv, TypeOK
  <2> QED BY <1>4, <2>1, BeginType DEF Restart
<1>5. ASSUME NEW d \in BOOLEAN, ByHand(d) PROVE TypeInv'
  <2>1. script' \in {"idle", "kill", "start"} /\ found' \subseteq Process
    BY <1>5 DEF ByHand, TypeInv, TypeOK, scripts
  <2> QED BY <1>5, <2>1, BeginType DEF ByHand
<1> QED BY <1>1, <1>2, <1>3, <1>4, <1>5, RegisterType, ExecuteType, KillType,
           RestType DEF Next, Operator

\* The types of Launch: what is open belongs to a process that is there, and no
\* counter or role number passes the number of accounts (InitSceneData, Gone).
THEOREM TypeCorrect == Spec => []TypeOK
<1>1. TypeInv => TypeOK BY DEF TypeInv
<1> QED BY <1>1, TypeInit, TypeNext, PTL DEF Spec

-----------------------------------------------------------------------------
(* One daemon.                                                             *)

\* Whoever is past the lock has the lock file open, and only processes of one
\* start have: the lock goes from parent to child before the parent exits.
LockInv ==
  /\ \A x \in Process : PastLock(x) => x \in holders
  /\ \A x, y \in holders : x[1] = y[1]

\* a step after which no process is past the lock that was not before
LEMMA NobodyPasses ==
  ASSUME LockInv, holders' = holders,
         \A x \in Process : PastLock(x)' => PastLock(x)
  PROVE  LockInv'
BY DEF LockInv

LEMMA BeginLock ==
  ASSUME TypeInv, LockInv, NEW d \in BOOLEAN, Begin(d)
  PROVE  LockInv'
<1> DEFINE p == started + 1
<1>1. /\ p \in Starts /\ <<p, 1>> \in Process /\ <<p, 1>>[1] = p
      /\ p \notin daemons /\ p > started
  <2>1. p \in Starts /\ p > started
    BY LaunchAssumption DEF TypeInv, TypeOK, Begin, Starts
  <2>2. 1 \in 1 .. 3 OBVIOUS
  <2>3. started \in Nat /\ daemons \subseteq 1 .. started
    BY DEF TypeInv, TypeOK, Shape
  <2>4. p \notin daemons BY <2>3
  <2> HIDE DEF p
  <2> QED BY <2>1, <2>2, <2>4, PairIsProcess
<1>2. pc' = [pc EXCEPT ![<<p, 1>>] = IF d THEN "lock" ELSE "bind"]
      /\ daemons' = (IF d THEN daemons \cup {p} ELSE daemons)
      /\ holders' = holders
  BY DEF Begin
<1> HIDE DEF p
<1>3. ASSUME NEW x \in Process, PastLock(x)' PROVE PastLock(x)
  <2>1. CASE x = <<p, 1>>
    <3>1. d BY <1>1, <1>2, <1>3, <2>1 DEF PastLock
    <3>2. pc'[x] = "lock" BY <1>1, <1>2, <2>1, <3>1 DEF TypeInv, TypeOK
    <3> QED BY <1>3, <3>2 DEF PastLock
  <2>2. CASE x # <<p, 1>>
    <3>1. pc'[x] = pc[x] BY <1>1, <1>2, <2>2 DEF TypeInv, TypeOK
    <3>2. x[1] # p BY <1>1, <1>3, <3>1 DEF TypeInv, Shape, PastLock
    <3> QED BY <1>2, <1>3, <3>1, <3>2 DEF PastLock
  <2> QED BY <2>1, <2>2
<1> QED BY <1>2, <1>3, NobodyPasses

LEMMA GoneLock ==
  ASSUME TypeInv, LockInv, NEW x \in Process, Gone(x)
  PROVE  LockInv'
<1>1. \A y \in Process : pc'[y] = IF y = x THEN "gone" ELSE pc[y]
  BY DEF Gone, Goes, TypeInv, TypeOK
<1>2. holders' = holders \ {x} /\ daemons' = daemons BY DEF Gone, Closed
<1>3. ASSUME NEW y \in Process, PastLock(y)' PROVE y \in holders'
  BY <1>1, <1>2, <1>3 DEF LockInv, PastLock
<1>4. \A y, z \in holders' : y[1] = z[1] BY <1>2 DEF LockInv
<1> QED BY <1>3, <1>4 DEF LockInv

LEMMA StartLock ==
  ASSUME TypeInv, LockInv, NEW x \in Process,
         Lock(x) \/ Fork(x) \/ Bind(x) \/ InitSceneData(x)
  PROVE  LockInv'
<1>1. pc \in [Process -> Phases] BY DEF TypeInv, TypeOK, Phases
<1>2. ASSUME NEW next, Goes(x, next), UNCHANGED <<daemons, holders>>,
             next = "exit" \/ PastLock(x) \/ x[1] \notin daemons
      PROVE  LockInv'
  <2>1. \A y \in Process : pc'[y] = IF y = x THEN next ELSE pc[y]
    BY <1>1, <1>2 DEF Goes
  <2>2. \A y \in Process : PastLock(y)' => PastLock(y)
    BY <1>2, <2>1 DEF PastLock
  <2> QED BY <1>2, <2>2, NobodyPasses
<1>3. CASE Lock(x)
  <2>1. CASE holders = {}
    <3>1. Goes(x, "fork") /\ holders' = {x} /\ daemons' = daemons
      BY <1>3, <2>1 DEF Lock
    <3>2. \A y \in Process : pc'[y] = IF y = x THEN "fork" ELSE pc[y]
      BY <1>1, <3>1 DEF Goes
    <3>3. \A y \in Process : PastLock(y)' => y = x
      BY <2>1, <3>1, <3>2 DEF LockInv, PastLock
    <3> QED BY <3>1, <3>3 DEF LockInv
  <2>2. CASE holders # {} BY <1>2, <1>3, <2>2 DEF Lock
  <2> QED BY <2>1, <2>2
<1>4. CASE Fork(x)
  <2> DEFINE child == <<x[1], x[2] + 1>>
             next == IF x[2] = 1 THEN "fork" ELSE "bind"
  <2>1. /\ PastLock(x) /\ x \in holders /\ child \in Process
        /\ child[1] = x[1]
    <3>1. pc[x] = "fork" BY <1>4 DEF Fork
    <3>2. x[1] \in daemons /\ x[2] # 3 BY <3>1 DEF TypeInv, Shape
    <3> QED BY <3>1, <3>2, ChildIsProcess DEF PastLock, LockInv
  <2>2. CASE /\ pc' = [pc EXCEPT ![x] = "exit", ![child] = next]
             /\ holders' = Inherited(x, child)
    <3> HIDE DEF child, next
    <3>1. holders' = holders \cup {child} /\ daemons' = daemons
      BY <1>4, <2>1, <2>2 DEF Inherited, Fork
    <3>2. ASSUME NEW y \in Process, PastLock(y)' PROVE y \in holders'
      <4>1. CASE y = child BY <3>1, <4>1
      <4>2. CASE y # child /\ y # x
        <5>1. pc'[y] = pc[y] BY <1>1, <2>2, <4>2
        <5> QED BY <3>1, <3>2, <5>1 DEF PastLock, LockInv
      <4>3. CASE y = x BY <2>1, <3>1, <4>3
      <4> QED BY <4>1, <4>2, <4>3
    <3>3. \A y, z \in holders' : y[1] = z[1] BY <2>1, <3>1 DEF LockInv
    <3> QED BY <3>2, <3>3 DEF LockInv
  <2>3. CASE Goes(x, "exit") /\ UNCHANGED holders
    BY <1>2, <1>4, <2>3 DEF Fork
  <2> QED BY <1>4, <2>2, <2>3 DEF Fork
<1>5. CASE Bind(x)
  <2>1. Goes(x, "count") /\ UNCHANGED <<daemons, holders>> BY <1>5 DEF Bind
  <2>2. PastLock(x) \/ x[1] \notin daemons BY <1>5 DEF Bind, PastLock
  <2> QED BY <1>2, <2>1, <2>2
<1>6. CASE InitSceneData(x)
  <2>1. UNCHANGED <<daemons, holders>> BY <1>6 DEF InitSceneData
  <2>2. PastLock(x) \/ x[1] \notin daemons BY <1>6 DEF InitSceneData, PastLock
  <2>3. Goes(x, "serve") \/ Goes(x, "exit") BY <1>6 DEF InitSceneData
  <2> QED BY <1>2, <2>1, <2>2, <2>3
<1> QED BY <1>3, <1>4, <1>5, <1>6

LEMMA LockNext == TypeInv /\ LockInv /\ [Next]_vars => LockInv'
<1> SUFFICES ASSUME TypeInv, LockInv, [Next]_vars PROVE LockInv' OBVIOUS
<1>1. ASSUME NEW x \in Process, Main(x) PROVE LockInv'
  BY <1>1, StartLock, GoneLock DEF Main, Exit
<1>2. ASSUME NEW x \in Process, ClientLeaves(x) \/ Die(x) PROVE LockInv'
  BY <1>2, GoneLock DEF ClientLeaves, Die
<1>3. CASE Restart BY <1>3, BeginLock DEF Restart
<1>4. ASSUME NEW d \in BOOLEAN, ByHand(d) PROVE LockInv'
  BY <1>4, BeginLock DEF ByHand
<1>5. ASSUME UNCHANGED <<pc, daemons, holders>> PROVE LockInv'
  BY <1>5, NobodyPasses DEF PastLock
<1>6. ASSUME NEW x \in Process, Register(x) \/ Execute(x) PROVE LockInv'
  BY <1>5, <1>6 DEF Register, Execute, processes
<1>7. CASE Ps \/ Kill \/ Expire \/ UNCHANGED vars
  BY <1>5, <1>7 DEF Ps, Kill, Expire, vars, processes
<1> QED BY <1>1, <1>2, <1>3, <1>4, <1>6, <1>7 DEF Next, Operator

\* Two daemons never run past the lock, for any number of starts, whatever is
\* killed and when (init_daemon: the lock file is inherited over both forks and
\* closed by the kernel only).
THEOREM OneDaemonHolds == Spec => []OneDaemon
<1>1. Init => LockInv BY DEF Init, LockInv, PastLock
<1>2. LockInv => OneDaemon BY DEF LockInv, OneDaemon
<1> QED BY <1>1, <1>2, TypeInit, TypeNext, LockNext, PTL DEF Spec

-----------------------------------------------------------------------------
(* Role numbers.                                                           *)

\* The role numbers in the table are not greater than n; an account that was
\* written while its handler got an error may have the next one.
UpTo(n) ==
  \A i \in DOMAIN accounts :
    accounts[i] <= n \/ (i \in uncounted /\ accounts[i] <= n + 1)

LEMMA ElementsOfSeq ==
  ASSUME NEW S, NEW s \in Seq(S)
  PROVE  \A i \in DOMAIN s : s[i] \in S
OBVIOUS

\* The port has one owner.  While no count(*) has overtaken a statement, no role
\* number is greater than the place of its account, at most one statement is on
\* its way, its number is greater than those in the table, and so is the next
\* number of the server on the port, but for the accounts not counted.
Numbered ==
  /\ \A i \in DOMAIN accounts : accounts[i] <= i
  /\ \A i, j \in DOMAIN accounts :
       i < j /\ accounts[i] = accounts[j] => i \in uncounted
  /\ \A x \in Process : statement[x] # NoStatement =>
       /\ statement[x] <= Len(accounts) + 1
       /\ UpTo(statement[x] - 1)
       /\ ~Dead(x) => x \in listening
  /\ \A x, y \in Process :
       statement[x] # NoStatement /\ statement[y] # NoStatement => x = y
  /\ \A x \in listening \ doomed : pc[x] = "serve" =>
       /\ mRegisterPlayerNum[x] <= Len(accounts) /\ UpTo(mRegisterPlayerNum[x])
       /\ \A y \in Process : statement[y] # NoStatement => y = x

RolesInv ==
  /\ \A x, y \in listening : x = y
  /\ missed \/ Numbered

\* a step that leaves the table alone, and the servers that stay with the port
LEMMA TableKept ==
  ASSUME TypeInv, RolesInv,
         UNCHANGED <<statement, accounts, missed, uncounted>>,
         listening' \subseteq Process,
         \A x, y \in listening' : x = y,
         \A x \in Process : statement[x] # NoStatement /\ ~Dead(x)' =>
           ~Dead(x) /\ (x \in listening => x \in listening'),
         \A x \in listening' \ doomed' : pc'[x] = "serve" =>
           /\ x \in listening \ doomed /\ pc[x] = "serve"
           /\ mRegisterPlayerNum'[x] = mRegisterPlayerNum[x]
  PROVE  RolesInv'
<1>1. ASSUME Numbered PROVE Numbered'
  BY <1>1 DEF Numbered, UpTo
<1> QED BY <1>1 DEF RolesInv

LEMMA BeginRoles ==
  ASSUME TypeInv, RolesInv, NEW d \in BOOLEAN, Begin(d)
  PROVE  RolesInv'
<1> DEFINE first == <<started + 1, 1>>
<1>1. /\ pc' = [pc EXCEPT ![first] = IF d THEN "lock" ELSE "bind"]
      /\ UNCHANGED <<listening, doomed, statement, accounts, missed, uncounted,
                     mRegisterPlayerNum>>
  BY DEF Begin, table
<1> HIDE DEF first
<1>2. \A x \in Process : pc'[x] \in {"serve", "gone"} => pc'[x] = pc[x]
  BY <1>1 DEF TypeInv, TypeOK
<1>3. listening \subseteq Process BY DEF TypeInv, TypeOK, Alive
<1>4. first \in Process /\ pc[first] = "none"
  <2>1. started + 1 \in Starts /\ started + 1 > started
    BY LaunchAssumption DEF TypeInv, TypeOK, Begin, Starts
  <2>2. 1 \in 1 .. 3 OBVIOUS
  <2> QED BY <2>1, <2>2, PairIsProcess DEF first, TypeInv, Shape
<1>5. \A x \in Process : Dead(x)' = Dead(x)
  BY <1>1, <1>4 DEF Dead, TypeInv, TypeOK
<1> QED BY <1>1, <1>2, <1>3, <1>5, TableKept DEF RolesInv

LEMMA GoneRoles ==
  ASSUME TypeInv, RolesInv, NEW x \in Process, Gone(x)
  PROVE  RolesInv'
<1>1. \A y \in Process : pc'[y] = IF y = x THEN "gone" ELSE pc[y]
  BY DEF Gone, Goes, TypeInv, TypeOK
<1>2. /\ listening' = listening \ {x} /\ doomed' = doomed \ {x}
      /\ UNCHANGED <<statement, accounts, missed, uncounted>>
      /\ mRegisterPlayerNum' = [mRegisterPlayerNum EXCEPT ![x] = 0]
  BY DEF Gone, Closed
<1>3. listening \subseteq Process BY DEF TypeInv, TypeOK, Alive
<1>4. \A y \in Process : ~Dead(y)' => y # x /\ ~Dead(y)
  BY <1>1, <1>2 DEF Dead
<1>5. \A y \in Process : y # x => mRegisterPlayerNum'[y] = mRegisterPlayerNum[y]
  BY <1>2 DEF TypeInv, TypeOK
<1> QED BY <1>1, <1>2, <1>3, <1>4, <1>5, TableKept DEF RolesInv

LEMMA StartRoles ==
  ASSUME TypeInv, RolesInv, NEW x \in Process, x \notin doomed,
         Lock(x) \/ Fork(x) \/ Bind(x) \/ InitSceneData(x)
  PROVE  RolesInv'
<1>1. pc \in [Process -> Phases] BY DEF TypeInv, TypeOK, Phases
<1>2. listening \subseteq Process BY DEF TypeInv, TypeOK, Alive
<1>3. ASSUME NEW next, next \notin {"serve", "gone"}, Goes(x, next),
             pc[x] \in {"lock", "fork", "bind", "count"},
             UNCHANGED <<listening, doomed, table>>
      PROVE  RolesInv'
  <2>1. \A y \in Process : pc'[y] = IF y = x THEN next ELSE pc[y]
    BY <1>1, <1>3 DEF Goes
  <2>2. \A y \in Process : Dead(y)' = Dead(y) BY <1>3, <2>1 DEF Dead
  <2> QED BY <1>2, <1>3, <2>1, <2>2, TableKept DEF table, RolesInv
<1>4. CASE Lock(x)
  <2>1. UNCHANGED <<listening, doomed, table>> /\ pc[x] = "lock"
        /\ (Goes(x, "fork") \/ Goes(x, "exit"))
    BY <1>4 DEF Lock
  <2> QED BY <1>3, <2>1
<1>5. CASE Fork(x)
  <2> DEFINE child == <<x[1], x[2] + 1>>
             next == IF x[2] = 1 THEN "fork" ELSE "bind"
  <2>1. UNCHANGED <<listening, doomed, table>> /\ pc[x] = "fork"
    BY <1>5 DEF Fork
  <2>2. CASE pc' = [pc EXCEPT ![x] = "exit", ![child] = next]
    <3>1. child \in Process /\ child # x /\ pc[child] = "none"
      <4>1. x[2] # 3 /\ x[2] \in 1 .. 3
        BY <2>1, ProcessIsPair DEF TypeInv, Shape
      <4>2. /\ child \in Process /\ child # x
            /\ child[1] = x[1] /\ child[2] = x[2] + 1
        BY <4>1, ChildIsProcess
      <4>3. x[2] < child[2] BY <4>1, <4>2
      <4> HIDE DEF child
      <4> QED BY <2>1, <4>2, <4>3 DEF TypeInv, Shape
    <3>2. next \in {"fork", "bind"} OBVIOUS
    <3> HIDE DEF child, next
    <3>3. \A y \in Process : pc'[y] = IF y = child THEN next
                                     ELSE IF y = x THEN "exit" ELSE pc[y]
      BY <1>1, <2>2, <3>1
    <3>4. \A y \in Process : Dead(y)' = Dead(y)
      BY <2>1, <3>1, <3>2, <3>3 DEF Dead
    <3> QED BY <1>2, <2>1, <3>2, <3>3, <3>4, TableKept DEF table, RolesInv
  <2>3. CASE Goes(x, "exit") BY <1>3, <2>1, <2>3
  <2> QED BY <1>5, <2>2, <2>3 DEF Fork
<1>6. CASE Bind(x)
  <2>1. UNCHANGED <<doomed, table>> /\ pc[x] = "bind" /\ Goes(x, "count")
        /\ listening' = (IF PortFree THEN listening \cup {x} ELSE listening)
    BY <1>6 DEF Bind
  <2>2. \A y \in Process : pc'[y] = IF y = x THEN "count" ELSE pc[y]
    BY <1>1, <2>1 DEF Goes
  <2>3. \A y \in Process : Dead(y)' = Dead(y) BY <2>1, <2>2 DEF Dead
  <2>4. /\ listening' \subseteq Process /\ listening \subseteq listening'
        /\ listening' \subseteq listening \cup {x}
        /\ \A y, z \in listening' : y = z
    BY <1>2, <2>1 DEF PortFree, RolesInv
  <2> QED BY <2>1, <2>2, <2>3, <2>4, TableKept DEF table
<1>7. CASE InitSceneData(x)
  <2>1. UNCHANGED <<listening, doomed, statement, accounts, uncounted>>
        /\ pc[x] = "count"
    BY <1>7 DEF InitSceneData
  <2>2. CASE /\ Goes(x, "serve")
             /\ mRegisterPlayerNum' = [mRegisterPlayerNum EXCEPT ![x] = Len(accounts)]
             /\ missed' = (missed \/ Overtaken)
    <3>1. \A y \in Process : pc'[y] = IF y = x THEN "serve" ELSE pc[y]
      BY <1>1, <2>2 DEF Goes
    <3>2. \A y \in Process : Dead(y)' = Dead(y)
      BY <2>1, <3>1 DEF Dead
    <3>3. ASSUME ~missed', x \in listening,
                 NEW y \in Process, statement[y] # NoStatement
          PROVE  y = x
      <4>1. Numbered /\ ~Overtaken BY <2>2, <3>3 DEF RolesInv
      <4>2. ~Dead(y) BY <3>3, <4>1 DEF Overtaken
      <4>3. y \in listening BY <3>3, <4>1, <4>2 DEF Numbered
      <4> QED BY <3>3, <4>3 DEF RolesInv
    <3>4. /\ mRegisterPlayerNum'[x] = Len(accounts)
          /\ \A y \in Process : y # x =>
               mRegisterPlayerNum'[y] = mRegisterPlayerNum[y]
      BY <2>2 DEF TypeInv, TypeOK
    <3>5. ASSUME ~missed' PROVE Numbered'
      <4>1. Numbered BY <2>2, <3>5 DEF RolesInv
      <4>2. ASSUME NEW y \in listening \ doomed, pc'[y] = "serve"
            PROVE  /\ mRegisterPlayerNum'[y] <= Len(accounts)
                   /\ UpTo(mRegisterPlayerNum'[y])
                   /\ \A z \in Process : statement[z] # NoStatement => z = y
        <5>1. CASE y = x
          <6>1. accounts \in Seq(1 .. MaxAccounts) BY DEF TypeInv, TypeOK
          <6>2. Len(accounts) \in Nat /\ DOMAIN accounts = 1 .. Len(accounts)
            BY <6>1
          <6>3. \A i \in DOMAIN accounts : accounts[i] \in 1 .. MaxAccounts
            BY <6>1, <6>2, ElementsOfSeq
          <6>4. UpTo(Len(accounts)) BY <4>1, <6>2, <6>3 DEF Numbered, UpTo
          <6> QED BY <3>3, <3>4, <3>5, <4>2, <5>1, <6>2, <6>4
        <5>2. CASE y # x
          BY <1>2, <3>1, <3>4, <4>1, <4>2, <5>2 DEF Numbered
        <5> QED BY <5>1, <5>2
      <4> QED BY <2>1, <3>2, <4>1, <4>2 DEF Numbered, UpTo
    <3> QED BY <2>1, <3>5 DEF RolesInv
  <2>3. CASE Goes(x, "exit") /\ UNCHANGED <<mRegisterPlayerNum, missed>>
    BY <1>3, <2>1, <2>3 DEF table
  <2> QED BY <1>7, <2>2, <2>3 DEF InitSceneData
<1> QED BY <1>4, <1>5, <1>6, <1>7

LEMMA RegisterRoles ==
  ASSUME TypeInv, RolesInv, NEW x \in Process, Register(x)
  PROVE  RolesInv'
<1>1. /\ UNCHANGED <<pc, listening, doomed, mRegisterPlayerNum, accounts, missed,
                     uncounted>>
      /\ statement[x] = NoStatement /\ x \in listening \ doomed /\ pc[x] = "serve"
      /\ statement' = [statement EXCEPT ![x] = mRegisterPlayerNum[x] + 1]
  BY DEF Register, processes
<1>2. \A y \in Process : statement'[y] = IF y = x THEN mRegisterPlayerNum[x] + 1
                                                ELSE statement[y]
  BY <1>1 DEF TypeInv, TypeOK
<1>3. \A y \in Process : Dead(y)' = Dead(y) BY <1>1 DEF Dead
<1>4. ASSUME Numbered PROVE Numbered'
  <2>1. /\ mRegisterPlayerNum[x] <= Len(accounts) /\ UpTo(mRegisterPlayerNum[x])
        /\ mRegisterPlayerNum[x] \in Nat /\ Len(accounts) \in Nat
    BY <1>1, <1>4 DEF Numbered, TypeInv, TypeOK
  <2>2. \A y \in Process : y # x => statement'[y] = NoStatement
    BY <1>1, <1>2, <1>4 DEF Numbered
  <2>3. \A y \in listening : y = x BY <1>1 DEF RolesInv
  <2>4. /\ statement'[x] <= Len(accounts) + 1
        /\ statement'[x] - 1 = mRegisterPlayerNum[x]
    BY <1>2, <2>1
  <2>5. \A n : UpTo(n)' = UpTo(n) BY <1>1 DEF UpTo
  <2>6. UpTo(statement[x] - 1)' BY <2>1, <2>4, <2>5
  <2>7. ASSUME NEW y \in Process, statement'[y] # NoStatement
        PROVE  /\ statement'[y] <= Len(accounts') + 1
               /\ UpTo(statement[y] - 1)'
               /\ ~Dead(y)' => y \in listening'
    <3>1. y = x BY <2>2, <2>7
    <3> QED BY <1>1, <2>4, <2>6, <3>1
  <2>8. \A y \in listening' \ doomed' : pc'[y] = "serve" =>
          /\ mRegisterPlayerNum'[y] <= Len(accounts')
          /\ UpTo(mRegisterPlayerNum[y])'
          /\ \A z \in Process : statement'[z] # NoStatement => z = y
    BY <1>1, <1>4, <2>2, <2>3, <2>5 DEF Numbered
  <2> QED BY <1>1, <1>4, <2>2, <2>7, <2>8 DEF Numbered
<1> QED BY <1>1, <1>4 DEF RolesInv

\* MySQL writes the account of the only statement on its way
LEMMA WrittenNumbered ==
  ASSUME TypeInv, Numbered, NEW x \in Process, statement[x] # NoStatement,
         NEW n, n = statement[x],
         AccountWritten(x),
         uncounted \subseteq uncounted'
  PROVE  /\ \A i \in DOMAIN accounts' : accounts'[i] <= i
         /\ \A i, j \in DOMAIN accounts' :
              i < j /\ accounts'[i] = accounts'[j] => i \in uncounted'
         /\ n <= Len(accounts')
         /\ UpTo(n)'
         /\ Len(accounts) + 1 \in uncounted' => UpTo(n - 1)'
<1>1. /\ accounts \in Seq(1 .. MaxAccounts) /\ statement[x] \in 1 .. MaxAccounts
      /\ accounts' = Append(accounts, statement[x])
  BY LaunchAssumption DEF AccountWritten, TypeInv, TypeOK, NoStatement
<1>2. /\ Len(accounts) \in Nat /\ Len(accounts') = Len(accounts) + 1
      /\ DOMAIN accounts' = 1 .. Len(accounts')
      /\ DOMAIN accounts = 1 .. Len(accounts)
      /\ \A i \in 1 .. Len(accounts') :
           accounts'[i] = IF i = Len(accounts) + 1 THEN statement[x]
                                                   ELSE accounts[i]
  BY <1>1
<1>3. \A i \in DOMAIN accounts : accounts[i] \in 1 .. MaxAccounts
  BY <1>1, <1>2, ElementsOfSeq
<1>4. statement[x] \in Nat /\ MaxAccounts \in Nat BY <1>1, LaunchAssumption
<1>5. /\ \A i \in DOMAIN accounts : accounts[i] <= i
      /\ \A i, j \in DOMAIN accounts :
           i < j /\ accounts[i] = accounts[j] => i \in uncounted
      /\ statement[x] <= Len(accounts) + 1
      /\ \A i \in DOMAIN accounts :
           \/ accounts[i] <= statement[x] - 1
           \/ i \in uncounted /\ accounts[i] <= (statement[x] - 1) + 1
  BY DEF Numbered, UpTo
<1>6. \A i \in DOMAIN accounts' : accounts'[i] <= i
  BY <1>2, <1>5
<1>7. ASSUME NEW i \in DOMAIN accounts', NEW j \in DOMAIN accounts',
             i < j, accounts'[i] = accounts'[j]
      PROVE  i \in uncounted'
  <2>1. i \in DOMAIN accounts /\ accounts'[i] = accounts[i] BY <1>2, <1>7
  <2>2. CASE j = Len(accounts) + 1
    <3>1. accounts[i] = statement[x] BY <1>2, <1>7, <2>1, <2>2
    <3>2. ~(accounts[i] <= statement[x] - 1) BY <1>4, <3>1
    <3> QED BY <1>5, <2>1, <3>2
  <2>3. CASE j # Len(accounts) + 1
    <3>1. j \in DOMAIN accounts /\ accounts'[j] = accounts[j] BY <1>2, <2>3
    <3> QED BY <1>5, <1>7, <2>1, <3>1
  <2> QED BY <2>2, <2>3
<1>8. UpTo(n)'
  <2>1. ASSUME NEW i \in DOMAIN accounts' PROVE accounts'[i] <= n
    BY <1>2, <1>3, <1>4, <1>5
  <2> QED BY <2>1 DEF UpTo
<1>9. ASSUME Len(accounts) + 1 \in uncounted' PROVE UpTo(n - 1)'
  <2>1. ASSUME NEW i \in DOMAIN accounts'
        PROVE  \/ accounts'[i] <= n - 1
               \/ i \in uncounted' /\ accounts'[i] <= (n - 1) + 1
    BY <1>2, <1>3, <1>4, <1>5, <1>9
  <2> QED BY <2>1 DEF UpTo
<1> QED BY <1>2, <1>5, <1>6, <1>7, <1>8, <1>9

LEMMA ExecuteRoles ==
  ASSUME TypeInv, RolesInv, NEW x \in Process, Execute(x)
  PROVE  RolesInv'
<1>1. /\ UNCHANGED <<pc, listening, doomed, missed>>
      /\ statement[x] # NoStatement
      /\ statement' = [statement EXCEPT ![x] = NoStatement]
      /\ Counted(x) \/ WrittenNotCounted(x) \/ NotWritten(x)
  BY DEF Execute, processes
<1>2. ASSUME Numbered PROVE Numbered'
  <2>1. \A y \in Process : statement'[y] = NoStatement
    BY <1>1, <1>2 DEF Numbered, TypeInv, TypeOK
  <2>2. ASSUME NEW y \in listening \ doomed, pc[y] = "serve"
        PROVE  /\ y = x /\ ~Dead(x) /\ x \in Process
               /\ mRegisterPlayerNum[x] \in Nat
               /\ mRegisterPlayerNum[x] <= Len(accounts)
               /\ UpTo(mRegisterPlayerNum[x])
               /\ statement[x] = mRegisterPlayerNum[x] + 1
    <3>1. y = x /\ y \in Process
      BY <1>1, <1>2, <2>2 DEF Numbered, TypeInv, TypeOK, Alive
    <3>2. ~Dead(x) BY <2>2, <3>1 DEF Dead
    <3> QED BY <1>1, <1>2, <2>2, <3>1, <3>2 DEF Numbered, TypeInv, TypeOK, Sent
  <2> PICK n : n = statement[x] OBVIOUS
  <2>3. CASE Counted(x)
    <3>1. AccountWritten(x) /\ uncounted' = uncounted BY <2>3 DEF Counted
    <3>2. ASSUME NEW y \in listening \ doomed, pc[y] = "serve"
          PROVE  mRegisterPlayerNum'[y] = n
      BY <2>2, <2>3, <3>2 DEF Counted, TypeInv, TypeOK
    <3>3. n <= Len(accounts') /\ UpTo(n)'
      BY <1>1, <1>2, <3>1, WrittenNumbered
    <3>4. \A y \in listening \ doomed : pc[y] = "serve" =>
            /\ mRegisterPlayerNum'[y] <= Len(accounts')
            /\ UpTo(mRegisterPlayerNum[y])'
      BY <3>2, <3>3 DEF UpTo
    <3> QED BY <1>1, <1>2, <2>1, <3>1, <3>4, WrittenNumbered DEF Numbered
  <2>4. CASE WrittenNotCounted(x)
    <3>1. /\ AccountWritten(x) /\ uncounted \subseteq uncounted'
          /\ Len(accounts) + 1 \in uncounted'
          /\ mRegisterPlayerNum' = mRegisterPlayerNum
      BY <2>4 DEF WrittenNotCounted
    <3>2. ASSUME NEW y \in listening \ doomed, pc[y] = "serve"
          PROVE  mRegisterPlayerNum'[y] = n - 1 /\ n \in Nat
      BY <2>2, <3>1, <3>2
    <3>3. n <= Len(accounts') /\ UpTo(n - 1)'
      BY <1>1, <1>2, <3>1, WrittenNumbered
    <3>4. Len(accounts') \in Nat
      BY <1>1, <2>4, ExecuteType DEF TypeInv, TypeOK
    <3>5. \A y \in listening \ doomed : pc[y] = "serve" =>
            /\ mRegisterPlayerNum'[y] <= Len(accounts')
            /\ UpTo(mRegisterPlayerNum[y])'
      BY <3>2, <3>3, <3>4 DEF UpTo
    <3> QED BY <1>1, <1>2, <2>1, <3>1, <3>5, WrittenNumbered DEF Numbered
  <2>5. CASE NotWritten(x)
    BY <1>1, <1>2, <2>1, <2>5 DEF NotWritten, Numbered, UpTo
  <2> QED BY <1>1, <2>3, <2>4, <2>5
<1> QED BY <1>1, <1>2 DEF RolesInv

LEMMA RolesNext == TypeInv /\ RolesInv /\ [Next]_vars => RolesInv'
<1> SUFFICES ASSUME TypeInv, RolesInv, [Next]_vars PROVE RolesInv' OBVIOUS
<1>1. ASSUME NEW x \in Process, Main(x) PROVE RolesInv'
  BY <1>1, StartRoles, GoneRoles DEF Main, Exit
<1>2. ASSUME NEW x \in Process, ClientLeaves(x) \/ Die(x) PROVE RolesInv'
  BY <1>2, GoneRoles DEF ClientLeaves, Die
<1>3. CASE Restart BY <1>3, BeginRoles DEF Restart
<1>4. ASSUME NEW d \in BOOLEAN, ByHand(d) PROVE RolesInv'
  BY <1>4, BeginRoles DEF ByHand
<1>5. CASE Ps \/ Kill \/ Expire \/ UNCHANGED vars
  <2>1. /\ UNCHANGED <<pc, listening, mRegisterPlayerNum, statement, accounts,
                       missed, uncounted>>
        /\ doomed \subseteq doomed'
    BY <1>5 DEF Ps, Kill, Expire, vars, processes, table
  <2>2. listening \subseteq Process BY DEF TypeInv, TypeOK, Alive
  <2> QED BY <2>1, <2>2, TableKept DEF Dead, RolesInv
<1> QED BY <1>1, <1>2, <1>3, <1>4, <1>5, RegisterRoles, ExecuteRoles
        DEF Next, Operator

\* Two accounts get one role number only if the handler of the first got an
\* error after it was written, or a count(*) overtook a statement a dead server
\* had sent, for any number of servers started and killed, with -D or without
\* (bind() before InitSceneData, and the port has one owner).
THEOREM RolesStayApart == Spec => []RolesNotShared
<1>1. Init => RolesInv
  <2> SUFFICES ASSUME Init PROVE RolesInv OBVIOUS
  <2>1. DOMAIN accounts = {} BY DEF Init
  <2> QED BY <2>1 DEF Init, RolesInv, Numbered
<1>2. RolesInv => RolesNotShared BY DEF RolesInv, Numbered, RolesNotShared
<1> QED BY <1>1, <1>2, TypeInit, TypeNext, RolesNext, PTL DEF Spec

-----------------------------------------------------------------------------
(* A clear start.                                                          *)

\* how far the process a that carries a start on has come
Stage(a) ==
  \/ pc[a] = "lock" /\ holders = {} /\ listening = {}
  \/ pc[a] = "fork" /\ listening = {}
  \/ pc[a] = "bind" /\ a[2] = 3 /\ listening = {}
  \/ pc[a] \in {"count", "serve"} /\ a[2] = 3 /\ a \in listening

\* all other processes are parents about to exit
Carries(a, p) ==
  /\ a[1] = p
  /\ Stage(a)
  /\ \A x \in Alive : x[1] = p /\ (x = a \/ pc[x] = "exit")

ClearInv ==
  \A p \in clear :
    /\ p \in daemons /\ ~lingering /\ doomed = {}
    /\ \E a \in Process : Carries(a, p)

\* a step of a process that carries nothing on, or of none
LEMMA CarriedOn ==
  ASSUME NEW a \in Process, NEW p, Carries(a, p), pc'[a] = pc[a],
         Alive' \subseteq Alive,
         \A x \in Alive' : pc'[x] = pc[x],
         holders' \subseteq holders, listening' \subseteq listening,
         a \in listening => a \in listening'
  PROVE  Carries(a, p)'
BY DEF Carries, Stage

LEMMA BeginClear ==
  ASSUME TypeInv, NEW d \in BOOLEAN, Begin(d)
  PROVE  ClearInv'
<1>1. PICK p : p = started + 1 OBVIOUS
<1>2. PICK first : first = <<p, 1>> OBVIOUS
<1>3. p \in Starts
  BY <1>1, LaunchAssumption DEF TypeInv, TypeOK, Begin, Starts
<1>4. /\ clear' = (IF d /\ Alive = {} /\ ~lingering THEN {p} ELSE {})
      /\ pc' = [pc EXCEPT ![first] = IF d THEN "lock" ELSE "bind"]
      /\ daemons' = (IF d THEN daemons \cup {p} ELSE daemons)
      /\ UNCHANGED <<holders, listening, lingering, doomed>>
  BY <1>1, <1>2 DEF Begin
<1>5. first \in Process /\ first[1] = p
  <2>1. 1 \in 1 .. 3 OBVIOUS
  <2> QED BY <1>2, <1>3, <2>1, PairIsProcess
<1>6. ASSUME d, Alive = {}, ~lingering
      PROVE  p \in daemons' /\ ~lingering' /\ doomed' = {} /\ Carries(first, p)'
  <2>1. holders = {} /\ listening = {} /\ doomed = {}
    BY <1>6 DEF TypeInv, TypeOK
  <2>2. \A x \in Process : pc'[x] = IF x = first THEN "lock" ELSE pc[x]
    BY <1>4, <1>5, <1>6 DEF TypeInv, TypeOK
  <2>3. \A x \in Process : pc'[x] \notin {"none", "gone"} => x = first
    BY <1>6, <2>2 DEF Alive
  <2>4. \A x \in Alive' : x = first BY <2>3 DEF Alive
  <2>5. Stage(first)' BY <1>4, <1>5, <2>1, <2>2 DEF Stage
  <2> QED BY <1>4, <1>5, <1>6, <2>1, <2>4, <2>5 DEF Carries
<1>7. CASE d /\ Alive = {} /\ ~lingering
  <2>1. clear' = {p} BY <1>4, <1>7
  <2> QED BY <1>5, <1>6, <1>7, <2>1 DEF ClearInv
<1>8. CASE ~(d /\ Alive = {} /\ ~lingering)
  <2>1. clear' = {} BY <1>4, <1>8
  <2> QED BY <2>1 DEF ClearInv
<1> QED BY <1>7, <1>8

LEMMA GoneClear ==
  ASSUME TypeInv, ClearInv, NEW x \in Process, Gone(x),
         pc[x] = "exit" \/ x \in doomed \/ (pc[x] = "serve" /\ x[1] \notin daemons)
  PROVE  ClearInv'
<1>1. \A y \in Process : pc'[y] = IF y = x THEN "gone" ELSE pc[y]
  BY DEF Gone, Goes, TypeInv, TypeOK
<1>2. /\ listening' = listening \ {x} /\ doomed' = doomed \ {x}
      /\ holders' = holders \ {x}
      /\ UNCHANGED <<clear, daemons>>
      /\ (pc[x] = "serve" /\ x \in listening) \/ lingering' = lingering
  BY DEF Gone, Closed
<1>3. ASSUME NEW p \in clear
      PROVE  /\ p \in daemons /\ ~lingering' /\ doomed' = {}
             /\ \E a \in Process : Carries(a, p)'
  <2>1. p \in daemons /\ ~lingering /\ doomed = {} BY DEF ClearInv
  <2>2. PICK a \in Process : Carries(a, p) BY DEF ClearInv
  <2>3. x \in Alive
    BY DEF Alive, TypeInv, TypeOK
  <2>4. x # a /\ pc[x] = "exit"
    <3>1. x[1] = p BY <2>2, <2>3 DEF Carries
    <3>2. pc[x] = "exit" BY <2>1, <3>1
    <3> QED BY <2>2, <3>2 DEF Carries, Stage
  <2>5. ~lingering' /\ doomed' = {} BY <1>2, <2>1, <2>4
  <2>6. Carries(a, p)'
    <3>1. pc'[a] = pc[a] BY <1>1, <2>4
    <3>2. Alive' \subseteq Alive /\ \A y \in Alive' : pc'[y] = pc[y]
      BY <1>1, <2>3 DEF Alive
    <3> QED BY <1>2, <2>2, <2>4, <3>1, <3>2, CarriedOn
  <2> QED BY <2>1, <2>5, <2>6
<1> QED BY <1>2, <1>3 DEF ClearInv

\* a step of the process that carries p on, to itself or to a child b
LEMMA StepCarries ==
  ASSUME NEW p, NEW a \in Process, NEW b \in Process, Carries(a, p),
         b[1] = p, Stage(b)',
         \A y \in Process : y # a /\ y # b => pc'[y] = pc[y],
         a = b \/ pc'[a] = "exit"
  PROVE  Carries(b, p)'
BY DEF Carries, Alive

\* lock, fork, bind and count(*) of the process that carries a start on
LEMMA StartClear ==
  ASSUME TypeInv, ClearInv, NEW x \in Process,
         Lock(x) \/ Fork(x) \/ Bind(x) \/ InitSceneData(x)
  PROVE  ClearInv'
<1>1. ASSUME NEW p \in clear'
      PROVE  /\ p \in daemons' /\ ~lingering' /\ doomed' = {}
             /\ \E a \in Process : Carries(a, p)'
  <2>1. clear' \subseteq clear /\ UNCHANGED <<daemons, lingering, doomed>>
    BY DEF Lock, Fork, Bind, InitSceneData
  <2>2. p \in clear /\ p \in daemons /\ ~lingering /\ doomed = {}
    BY <1>1, <2>1 DEF ClearInv
  <2>3. PICK a \in Process : Carries(a, p) BY <2>2 DEF ClearInv
  <2>4. x = a /\ x[1] = p
    <3>1. pc[x] \in {"lock", "fork", "bind", "count"}
      BY DEF Lock, Fork, Bind, InitSceneData
    <3>2. x \in Alive BY <3>1 DEF Alive
    <3> QED BY <2>3, <3>1, <3>2 DEF Carries
  <2>5. Stage(x) BY <2>3, <2>4 DEF Carries
  <2>6. pc \in [Process -> Phases] BY DEF TypeInv, TypeOK, Phases
  <2>7. ASSUME NEW next, Goes(x, next), Stage(x)' PROVE Carries(x, p)'
    <3>1. \A y \in Process : y # x => pc'[y] = pc[y] BY <2>6, <2>7 DEF Goes
    <3> QED BY <2>3, <2>4, <2>7, <3>1, StepCarries
  <2>8. CASE Lock(x)
    <3>1. holders = {} /\ listening = {} BY <2>5, <2>8 DEF Stage, Lock
    <3>2. Goes(x, "fork") /\ listening' = {} BY <2>8, <3>1 DEF Lock
    <3>3. Stage(x)' BY <2>6, <3>2 DEF Goes, Stage
    <3> QED BY <2>1, <2>2, <2>7, <3>2, <3>3
  <2>9. CASE Fork(x)
    <3>1. PICK child : child = <<x[1], x[2] + 1>> OBVIOUS
    <3>2. x[2] # 3 /\ x[2] \in 1 .. 3
      BY <2>9, ProcessIsPair DEF Fork, TypeInv, Shape
    <3>3. child \in Process /\ child[1] = p /\ child[2] = x[2] + 1 /\ child # x
      BY <2>4, <3>1, <3>2, ChildIsProcess
    <3>4. pc' = [pc EXCEPT ![x] = "exit",
                           ![child] = IF x[2] = 1 THEN "fork" ELSE "bind"]
      BY <1>1, <2>4, <2>9, <3>1 DEF Fork
    <3>5. listening' = {} BY <2>5, <2>9 DEF Stage, Fork
    <3>6. /\ pc'[x] = "exit"
          /\ pc'[child] = IF x[2] = 1 THEN "fork" ELSE "bind"
          /\ \A y \in Process : y # x /\ y # child => pc'[y] = pc[y]
      BY <2>6, <3>3, <3>4
    <3>7. Stage(child)' BY <3>2, <3>3, <3>5, <3>6 DEF Stage
    <3>8. Carries(child, p)' BY <2>3, <2>4, <3>3, <3>6, <3>7, StepCarries
    <3> QED BY <2>1, <2>2, <3>3, <3>8
  <2>10. CASE Bind(x)
    <3>1. Goes(x, "count") /\ x[2] = 3 /\ x \in listening'
      BY <2>2, <2>5, <2>10 DEF Stage, Bind, PortFree
    <3>2. Stage(x)' BY <2>6, <3>1 DEF Goes, Stage
    <3> QED BY <2>1, <2>2, <2>7, <3>1, <3>2
  <2>11. CASE InitSceneData(x)
    <3>1. Goes(x, "serve") /\ x[2] = 3 /\ x \in listening'
      BY <1>1, <2>4, <2>5, <2>11 DEF Stage, InitSceneData
    <3>2. Stage(x)' BY <2>6, <3>1 DEF Goes, Stage
    <3> QED BY <2>1, <2>2, <2>7, <3>1, <3>2
  <2> QED BY <2>8, <2>9, <2>10, <2>11
<1> QED BY <1>1 DEF ClearInv

LEMMA KillClear == TypeInv /\ ClearInv /\ Kill => ClearInv'
<1> SUFFICES ASSUME TypeInv, ClearInv, Kill, NEW p \in clear'
             PROVE  /\ p \in daemons' /\ ~lingering' /\ doomed' = {}
                    /\ \E a \in Process : Carries(a, p)'
  BY DEF ClearInv
<1>1. p \in clear /\ \A x \in found : x[1] # p BY DEF Kill
<1>2. PICK a \in Process : Carries(a, p) BY <1>1 DEF ClearInv
<1>3. found \cap Alive = {} BY <1>1, <1>2 DEF Carries
<1>4. /\ doomed' = doomed \cup (found \cap Alive)
      /\ UNCHANGED <<pc, daemons, holders, listening, lingering>>
  BY DEF Kill
<1>5. Carries(a, p)' BY <1>2, <1>4, CarriedOn DEF Alive
<1> QED BY <1>1, <1>3, <1>4, <1>5 DEF ClearInv

LEMMA ClearKept ==
  ASSUME ClearInv, UNCHANGED <<pc, daemons, holders, listening, doomed, clear>>,
         lingering' => lingering
  PROVE  ClearInv'
<1>1. ASSUME NEW p \in clear PROVE \E a \in Process : Carries(a, p)'
  <2>1. PICK a \in Process : Carries(a, p) BY <1>1 DEF ClearInv
  <2>2. Carries(a, p)' BY <2>1, CarriedOn DEF Alive
  <2> QED BY <2>2
<1> QED BY <1>1 DEF ClearInv

LEMMA ClearNext == TypeInv /\ ClearInv /\ [Next]_vars => ClearInv'
<1> SUFFICES ASSUME TypeInv, ClearInv, [Next]_vars PROVE ClearInv' OBVIOUS
<1>1. ASSUME NEW x \in Process, Main(x) PROVE ClearInv'
  BY <1>1, StartClear, GoneClear DEF Main, Exit
<1>2. ASSUME NEW x \in Process, ClientLeaves(x) \/ Die(x) PROVE ClearInv'
  BY <1>2, GoneClear DEF ClientLeaves, Die, NotIgnored
<1>3. CASE Restart BY <1>3, BeginClear DEF Restart
<1>4. ASSUME NEW d \in BOOLEAN, ByHand(d) PROVE ClearInv'
  BY <1>4, BeginClear DEF ByHand
<1>5. ASSUME NEW x \in Process, Register(x) \/ Execute(x) PROVE ClearInv'
  BY <1>5, ClearKept DEF Register, Execute, processes
<1>6. CASE Ps \/ Expire \/ UNCHANGED vars
  BY <1>6, ClearKept DEF Ps, Expire, vars, processes
<1> QED BY <1>1, <1>2, <1>3, <1>4, <1>5, <1>6, KillClear DEF Next, Operator

\* Nothing keeps a start with -D that finds no process and no connection of an
\* earlier one from serving, however often the program was started and killed
\* before: the lock it finds is free, and passed on to both children; the port
\* is free; no signal ends it (init_daemon, ignore_pipe, InitEpoll).
THEOREM ClearStartsServe == Spec => []ClearStartServes
<1>1. Init => ClearInv BY DEF Init, ClearInv
<1>2. ClearInv => ClearStartServes
  <2> SUFFICES ASSUME ClearInv, NEW p \in clear
               PROVE  Serves(p) \/ \E g \in 1 .. 3 : OnItsWay(<<p, g>>)
    BY DEF ClearStartServes
  <2>1. PICK a \in Process : Carries(a, p) BY DEF ClearInv
  <2>2. doomed = {} BY DEF ClearInv
  <2>3. a[2] \in 1 .. 3 /\ a = <<p, a[2]>> BY <2>1, ProcessIsPair DEF Carries
  <2>4. CASE pc[a] = "serve"
    <3>1. a[2] = 3 /\ a \in listening BY <2>1, <2>4 DEF Carries, Stage
    <3> QED BY <2>3, <2>4, <3>1 DEF Serves
  <2>5. CASE pc[a] # "serve"
    <3>1. OnItsWay(a) BY <2>1, <2>2, <2>5 DEF Carries, Stage, OnItsWay
    <3> QED BY <2>3, <3>1
  <2> QED BY <2>4, <2>5
<1> QED BY <1>1, <1>2, TypeInit, TypeNext, ClearNext, PTL DEF Spec

=============================================================================
