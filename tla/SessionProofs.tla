--------------------------- MODULE SessionProofs ---------------------------
(***************************************************************************)
(* Theorems about Session, for any number of clients and instances.        *)
(***************************************************************************)
EXTENDS Session, FiniteSetTheorems, TLAPS

Commands == {"run", "bench"}
TaBusy == {"allocating", "executing", "returning", "printing", "answered", "panicked"}

\* The first k objects of an execution.
Prefix(k) == {Objects[i] : i \in 1..k}

\* Where an instance is, given where its client is, and how far its execution
\* has come.
Progress(c) ==
    /\ client[c] \in {"start", "connected"} => ta[c] = "absent"
    /\ client[c] = "opened" => ta[c] = "idle"
    /\ client[c] = "waiting" => ta[c] \in TaBusy /\ arg[c] \in Commands
    /\ client[c] = "closing" => ta[c] = "answered" \/ (ta[c] = "idle" /\ arg[c] = "other")
    /\ ta[c] \in {"absent", "idle", "allocating", "executing"} => executions[c] = 0
    /\ ta[c] \in {"returning", "printing", "answered"} => executions[c] = 1 /\ status[c] # "none"
    /\ client[c] = "done" /\ arg[c] \in Commands => executions[c] = 1 /\ status[c] # "none"

\* What an instance has allocated at each stage.
Holds(c) ==
    /\ ta[c] \in {"absent", "idle"} => held[c] = {}
    /\ ta[c] = "allocating" => \E k \in 0..6 : held[c] = Prefix(k)
    /\ ta[c] \in {"absent", "idle", "allocating", "executing"} => ~output[c]
    /\ ta[c] \in {"returning", "printing", "answered"} /\ output[c] =>
          "memory" \in held[c] /\ status[c] \in {"SUCCESS", "REVERT"}
    /\ ta[c] \in {"printing", "answered"} /\ output[c] => "result" \in held[c]
    /\ ta[c] = "answered" /\ output[c] => "output" \in held[c]

SInv ==
    /\ SessionTypeOK
    /\ IsFiniteSet(Live)
    /\ \A c \in Clients : Progress(c) /\ Holds(c)

-----------------------------------------------------------------------------
\* Objects is a sequence of seven different names.
LEMMA ObjectNames ==
    /\ Objects[1] = "vm" /\ Objects[2] = "code" /\ Objects[3] = "input" /\ Objects[4] = "host"
    /\ Objects[5] = "msg" /\ Objects[6] = "state" /\ Objects[7] = "memory"
  BY DEF Objects

\* One object more.
LEMMA PrefixGrows ==
    ASSUME NEW k \in 0..6
    PROVE  Prefix(k + 1) = Prefix(k) \cup {Objects[k + 1]} /\ Objects[k + 1] \notin Prefix(k)
<1>1. 1..(k + 1) = (1..k) \cup {k + 1}
  OBVIOUS
<1>2. Prefix(k + 1) = Prefix(k) \cup {Objects[k + 1]}
  BY <1>1 DEF Prefix
<1>3. \A i, j \in 1..7 : Objects[i] = Objects[j] => i = j
  BY ObjectNames
<1>4. Objects[k + 1] \notin Prefix(k)
  BY <1>3 DEF Prefix
<1> QED BY <1>2, <1>4

\* So their number says which object comes next.
LEMMA PrefixStep ==
    ASSUME NEW k \in 0..6, IsFiniteSet(Prefix(k)), Cardinality(Prefix(k)) = k
    PROVE  IsFiniteSet(Prefix(k + 1)) /\ Cardinality(Prefix(k + 1)) = k + 1
<1>1. IsFiniteSet(Prefix(k) \cup {Objects[k + 1]})
      /\ Cardinality(Prefix(k) \cup {Objects[k + 1]}) = k + 1
  <2>1. Objects[k + 1] \notin Prefix(k)
    BY PrefixGrows
  <2> QED BY <2>1, FS_AddElement
<1> QED BY <1>1, PrefixGrows

LEMMA PrefixSize ==
    ASSUME NEW k \in 0..7
    PROVE  Cardinality(Prefix(k)) = k
<1> DEFINE Counts(n) == IsFiniteSet(Prefix(n)) /\ Cardinality(Prefix(n)) = n
<1>1. Counts(0)
  <2>1. Prefix(0) = {}
    BY DEF Prefix
  <2> QED BY <2>1, FS_EmptySet
<1>2. \A n \in 0..6 : Counts(n) => Counts(n + 1)
  BY PrefixStep
<1> HIDE DEF Counts
<1>3. Counts(1) BY <1>1, <1>2
<1>4. Counts(2) BY <1>3, <1>2
<1>5. Counts(3) BY <1>4, <1>2
<1>6. Counts(4) BY <1>5, <1>2
<1>7. Counts(5) BY <1>6, <1>2
<1>8. Counts(6) BY <1>7, <1>2
<1>9. Counts(7) BY <1>8, <1>2
<1>10. Counts(k)
  BY <1>1, <1>3, <1>4, <1>5, <1>6, <1>7, <1>8, <1>9
<1> QED BY <1>10 DEF Counts

\* What the next object is, and what is held with it.
LEMMA NextObject ==
    ASSUME NEW c \in Clients, NEW k \in 0..6, held[c] = Prefix(k)
    PROVE  /\ Next_object(c) = Objects[k + 1]
           /\ held[c] \cup {Next_object(c)} = Prefix(k + 1)
           /\ Next_object(c) = "memory" <=> k = 6
<1>1. Next_object(c) = Objects[k + 1]
  BY PrefixSize DEF Next_object
<1>2. Objects[k + 1] = "memory" <=> k = 6
  BY ObjectNames
<1> QED BY <1>1, <1>2, PrefixGrows

-----------------------------------------------------------------------------
\* An instance that moves between stages of its life stays one instance.
LEMMA LiveMoves ==
    ASSUME SessionTypeOK, IsFiniteSet(Live), NEW c \in Live, NEW there,
           Moves(c, there), there \notin {"absent", "destroyed"}
    PROVE  IsFiniteSet(Live)' /\ (Cardinality(Live) <= Instances)'
<1>1. Live' = Live
  BY DEF Live, Moves, SessionTypeOK
<1> QED BY <1>1 DEF SessionTypeOK

LEMMA LiveSame ==
    ASSUME SessionTypeOK, IsFiniteSet(Live), ta' = ta
    PROVE  IsFiniteSet(Live)' /\ (Cardinality(Live) <= Instances)'
<1>1. Live' = Live
  BY DEF Live
<1> QED BY <1>1 DEF SessionTypeOK

LEMMA LiveEnds ==
    ASSUME SessionTypeOK, IsFiniteSet(Live), NEW c \in Clients, Destroyed(c)
    PROVE  IsFiniteSet(Live)' /\ (Cardinality(Live) <= Instances)'
<1>1. Live' \subseteq Live
  BY DEF Live, Destroyed, Moves, SessionTypeOK
<1>2. IsFiniteSet(Live') /\ Cardinality(Live') <= Cardinality(Live)
  BY <1>1, FS_Subset
<1>3. Cardinality(Live) \in Nat /\ Cardinality(Live') \in Nat
  BY <1>2, FS_CardinalityType
<1> QED BY <1>2, <1>3, SessionAssumption DEF SessionTypeOK

LEMMA LiveOpens ==
    ASSUME SessionTypeOK, IsFiniteSet(Live), NEW c \in Clients, Moves(c, "idle"),
           Cardinality(Live) < Instances
    PROVE  IsFiniteSet(Live)' /\ (Cardinality(Live) <= Instances)'
<1>1. Live' = Live \cup {c}
  BY DEF Live, Moves, SessionTypeOK
<1>2. IsFiniteSet(Live \cup {c}) /\ Cardinality(Live \cup {c}) <= Cardinality(Live) + 1
  <2>1. Cardinality(Live) \in Nat
    BY FS_CardinalityType
  <2>2. /\ IsFiniteSet(Live \cup {c})
        /\ Cardinality(Live \cup {c}) = IF c \in Live THEN Cardinality(Live) ELSE Cardinality(Live) + 1
    BY FS_AddElement, Zenon
  <2> QED BY <2>1, <2>2
<1>3. Cardinality(Live) \in Nat /\ Cardinality(Live \cup {c}) \in Nat
  BY <1>2, FS_CardinalityType
<1> QED BY <1>1, <1>2, <1>3, SessionAssumption

\* The other clients and their instances are where they were.
LEMMA OthersKept ==
    ASSUME SInv, NEW c \in Clients, NEW d \in Clients, d # c,
           arg' = arg, client'[d] = client[d], ta'[d] = ta[d], held'[d] = held[d],
           executions'[d] = executions[d], status'[d] = status[d], output'[d] = output[d]
    PROVE  Progress(d)' /\ Holds(d)'
<1>1. Progress(d) /\ Holds(d)
  BY DEF SInv
<1> QED BY <1>1 DEF Progress, Holds

-----------------------------------------------------------------------------
\* One lemma per operation of the client.
LEMMA InitializeContextKeeps ==
    ASSUME SInv, NEW c \in Clients, initialize_context(c)
    PROVE  SInv'
<1> USE DEF initialize_context, Goes
<1>1. Progress(c) /\ Holds(c) /\ SessionTypeOK
  BY DEF SInv
<1>2. SessionTypeOK' /\ IsFiniteSet(Live)'
  BY <1>1, LiveSame DEF SInv, SessionTypeOK, Ended
<1>3. Progress(c)' /\ Holds(c)'
  BY <1>1 DEF Progress, Holds, SessionTypeOK, Ended
<1>4. ASSUME NEW d \in Clients, d # c PROVE Progress(d)' /\ Holds(d)'
  BY <1>1, <1>4, OthersKept DEF SessionTypeOK
<1> QED BY <1>2, <1>3, <1>4 DEF SInv

LEMMA OpenSessionKeeps ==
    ASSUME SInv, NEW c \in Clients, open_session(c)
    PROVE  SInv'
<1> USE DEF open_session, Goes, Moves
<1>1. Progress(c) /\ Holds(c) /\ SessionTypeOK
  BY DEF SInv
<1>2. SessionTypeOK' /\ IsFiniteSet(Live)'
  <2>1. IsFiniteSet(Live)' /\ (Cardinality(Live) <= Instances)'
    BY <1>1, LiveOpens, LiveSame DEF SInv
  <2> QED BY <1>1, <2>1 DEF SessionTypeOK, Ended
<1>3. Progress(c)' /\ Holds(c)'
  BY <1>1 DEF Progress, Holds, SessionTypeOK, Ended, TaBusy, Commands
<1>4. ASSUME NEW d \in Clients, d # c PROVE Progress(d)' /\ Holds(d)'
  BY <1>1, <1>4, OthersKept DEF SessionTypeOK
<1> QED BY <1>2, <1>3, <1>4 DEF SInv

LEMMA InvokeKeeps ==
    ASSUME SInv, NEW c \in Clients, invoke(c)
    PROVE  SInv'
<1> USE DEF invoke, Goes, Moves
<1>1. Progress(c) /\ Holds(c) /\ SessionTypeOK
  BY DEF SInv
<1>2. SessionTypeOK' /\ IsFiniteSet(Live)'
  <2>1. c \in Live
    BY <1>1 DEF Live, Progress, TaBusy
  <2>2. IsFiniteSet(Live)' /\ (Cardinality(Live) <= Instances)'
    BY <1>1, <2>1, LiveMoves, LiveSame DEF SInv
  <2> QED BY <1>1, <2>2 DEF SessionTypeOK, Ended
<1>3. Progress(c)' /\ Holds(c)'
  <2>1. Prefix(0) = {}
    BY DEF Prefix
  <2>2. /\ \/ client'[c] = "crashed" /\ ta'[c] = "idle"
           \/ client'[c] = "closing" /\ ta'[c] = "idle" /\ arg[c] = "other"
           \/ client'[c] = "waiting" /\ ta'[c] = "allocating" /\ arg[c] \in Commands
        /\ arg' = arg /\ held' = held /\ executions' = executions /\ output' = output
    BY <1>1 DEF Progress, SessionTypeOK, Commands
  <2>3. executions[c] = 0 /\ held[c] = {} /\ ~output[c]
    BY <1>1 DEF Progress, Holds
  <2> HIDE DEF invoke
  <2>4. Progress(c)'
    BY <2>2, <2>3 DEF Progress, TaBusy
  <2>5. Holds(c)'
    BY <2>1, <2>2, <2>3 DEF Holds
  <2> QED BY <2>4, <2>5
<1>4. ASSUME NEW d \in Clients, d # c PROVE Progress(d)' /\ Holds(d)'
  BY <1>1, <1>4, OthersKept DEF SessionTypeOK
<1> QED BY <1>2, <1>3, <1>4 DEF SInv

LEMMA AnswerKeeps ==
    ASSUME SInv, NEW c \in Clients, answer(c)
    PROVE  SInv'
<1> USE DEF answer, Goes
<1>1. Progress(c) /\ Holds(c) /\ SessionTypeOK
  BY DEF SInv
<1>2. SessionTypeOK' /\ IsFiniteSet(Live)'
  BY <1>1, LiveSame DEF SInv, SessionTypeOK, Ended
<1>3. Progress(c)' /\ Holds(c)'
  BY <1>1 DEF Progress, Holds, SessionTypeOK, Ended, TaBusy, Commands
<1>4. ASSUME NEW d \in Clients, d # c PROVE Progress(d)' /\ Holds(d)'
  BY <1>1, <1>4, OthersKept DEF SessionTypeOK
<1> QED BY <1>2, <1>3, <1>4 DEF SInv

LEMMA TerminateKeeps ==
    ASSUME SInv, NEW c \in Clients, terminate(c)
    PROVE  SInv'
<1> USE DEF terminate, Goes, Destroyed, Moves
<1>1. Progress(c) /\ Holds(c) /\ SessionTypeOK
  BY DEF SInv
<1>2. SessionTypeOK' /\ IsFiniteSet(Live)'
  <2>1. IsFiniteSet(Live)' /\ (Cardinality(Live) <= Instances)'
    BY <1>1, LiveEnds DEF SInv
  <2> QED BY <1>1, <2>1 DEF SessionTypeOK, Ended
<1>3. Progress(c)' /\ Holds(c)'
  BY <1>1 DEF Progress, Holds, SessionTypeOK, Ended, TaBusy, Commands
<1>4. ASSUME NEW d \in Clients, d # c PROVE Progress(d)' /\ Holds(d)'
  BY <1>1, <1>4, OthersKept DEF SessionTypeOK
<1> QED BY <1>2, <1>3, <1>4 DEF SInv

LEMMA CleanupKeeps ==
    ASSUME SInv, NEW c \in Clients, cleanup(c)
    PROVE  SInv'
<1> USE DEF cleanup, Goes, Destroyed, Moves
<1>1. Progress(c) /\ Holds(c) /\ SessionTypeOK
  BY DEF SInv
<1>2. SessionTypeOK' /\ IsFiniteSet(Live)'
  <2>1. IsFiniteSet(Live)' /\ (Cardinality(Live) <= Instances)'
    BY <1>1, LiveEnds DEF SInv
  <2> QED BY <1>1, <2>1 DEF SessionTypeOK, Ended
<1>3. Progress(c)' /\ Holds(c)'
  BY <1>1 DEF Progress, Holds, SessionTypeOK, Ended, TaBusy, Commands
<1>4. ASSUME NEW d \in Clients, d # c PROVE Progress(d)' /\ Holds(d)'
  BY <1>1, <1>4, OthersKept DEF SessionTypeOK
<1> QED BY <1>2, <1>3, <1>4 DEF SInv

-----------------------------------------------------------------------------
\* One lemma per step of the instance.
LEMMA ExecuteKeeps ==
    ASSUME SInv, NEW c \in Clients, execute(c)
    PROVE  SInv'
<1> USE DEF execute, Goes, Moves
<1>1. Progress(c) /\ Holds(c) /\ SessionTypeOK
  BY DEF SInv
<1>2. SessionTypeOK' /\ IsFiniteSet(Live)'
  <2>1. c \in Live
    BY <1>1 DEF Live
  <2>2. IsFiniteSet(Live)' /\ (Cardinality(Live) <= Instances)'
    BY <1>1, <2>1, LiveMoves, LiveSame DEF SInv
  <2> QED BY <1>1, <2>2 DEF SessionTypeOK, Ended
<1>3. Progress(c)' /\ Holds(c)'
  BY <1>1, SessionAssumption DEF Progress, Holds, SessionTypeOK, Ended, TaBusy, Commands
<1>4. ASSUME NEW d \in Clients, d # c PROVE Progress(d)' /\ Holds(d)'
  BY <1>1, <1>4, OthersKept DEF SessionTypeOK
<1> QED BY <1>2, <1>3, <1>4 DEF SInv

LEMMA MakeResultKeeps ==
    ASSUME SInv, NEW c \in Clients, evmc_make_result(c)
    PROVE  SInv'
<1> USE DEF evmc_make_result
<1>1. Progress(c) /\ Holds(c) /\ SessionTypeOK
  BY DEF SInv
<1>2. SessionTypeOK' /\ IsFiniteSet(Live)'
  <2>1. c \in Live /\ Moves(c, "printing")
    BY <1>1 DEF Live
  <2>2. IsFiniteSet(Live)' /\ (Cardinality(Live) <= Instances)'
    BY <1>1, <2>1, LiveMoves DEF SInv
  <2>3. held' \in [Clients -> SUBSET ({Objects[i] : i \in 1..7} \cup {"result", "output"})]
    BY <1>1 DEF SessionTypeOK
  <2>4. status' \in [Clients -> Statuses \cup {"none", "OUT_OF_MEMORY"}]
    BY <1>1 DEF SessionTypeOK
  <2>5. ta' \in [Clients -> {"absent", "idle", "allocating", "executing", "returning", "printing",
                           "answered", "panicked", "destroyed"}]
    BY <1>1 DEF SessionTypeOK, Moves
  <2>6. output' \in [Clients -> BOOLEAN]
    BY <1>1 DEF SessionTypeOK
  <2> QED BY <1>1, <2>2, <2>3, <2>4, <2>5, <2>6 DEF SessionTypeOK
<1>3. Progress(c)' /\ Holds(c)'
  BY <1>1 DEF Progress, Holds, SessionTypeOK, Ended, TaBusy, Commands, Moves
<1>4. ASSUME NEW d \in Clients, d # c PROVE Progress(d)' /\ Holds(d)'
  BY <1>1, <1>4, OthersKept DEF SessionTypeOK, Moves
<1> QED BY <1>2, <1>3, <1>4 DEF SInv

LEMMA PrintKeeps ==
    ASSUME SInv, NEW c \in Clients, print(c)
    PROVE  SInv'
<1> USE DEF print, Goes, Moves
<1>1. Progress(c) /\ Holds(c) /\ SessionTypeOK
  BY DEF SInv
<1>2. SessionTypeOK' /\ IsFiniteSet(Live)'
  <2>1. c \in Live
    BY <1>1 DEF Live
  <2>2. IsFiniteSet(Live)' /\ (Cardinality(Live) <= Instances)'
    BY <1>1, <2>1, LiveMoves, LiveSame DEF SInv
  <2> QED BY <1>1, <2>2 DEF SessionTypeOK, Ended
<1>3. Progress(c)' /\ Holds(c)'
  BY <1>1 DEF Progress, Holds, SessionTypeOK, Ended, TaBusy, Commands
<1>4. ASSUME NEW d \in Clients, d # c PROVE Progress(d)' /\ Holds(d)'
  BY <1>1, <1>4, OthersKept DEF SessionTypeOK
<1> QED BY <1>2, <1>3, <1>4 DEF SInv

\* The objects are allocated in their order; the execution begins after the
\* last, with or without it.
LEMMA AllocateKeeps ==
    ASSUME SInv, NEW c \in Clients, allocate(c)
    PROVE  SInv'
<1> USE DEF allocate
<1>1. Progress(c) /\ Holds(c) /\ SessionTypeOK
  BY DEF SInv
<1>2. PICK k \in 0..6 : held[c] = Prefix(k)
  BY <1>1 DEF Holds
<1> DEFINE new == held[c] \cup {Next_object(c)}
<1>3. /\ new = Prefix(k + 1)
      /\ Next_object(c) = "memory" <=> k = 6
  BY <1>2, NextObject
<1>4. new \subseteq {Objects[i] : i \in 1..7}
  BY <1>3 DEF Prefix
<1>6. c \in Live
  BY DEF Live
<1>7. \/ held' = [held EXCEPT ![c] = new] /\ k = 6 /\ Moves(c, "executing")
      \/ held' = [held EXCEPT ![c] = new] /\ k # 6 /\ ta' = ta
      \/ held' = held /\ (Moves(c, "executing") \/ Moves(c, "panicked"))
  BY <1>3
<1> HIDE DEF new, allocate
<1>8. UNCHANGED <<arg, client, executions, status, output>> /\ ta[c] = "allocating"
  BY DEF allocate
<1>9. SessionTypeOK' /\ IsFiniteSet(Live)'
  <2>1. IsFiniteSet(Live)' /\ (Cardinality(Live) <= Instances)'
    BY <1>1, <1>6, <1>7, LiveMoves, LiveSame DEF SInv
  <2>2. held' \in [Clients -> SUBSET ({Objects[i] : i \in 1..7} \cup {"result", "output"})]
    BY <1>1, <1>4, <1>7 DEF SessionTypeOK
  <2>3. ta' \in [Clients -> {"absent", "idle", "allocating", "executing", "returning", "printing",
                           "answered", "panicked", "destroyed"}]
    BY <1>1, <1>7 DEF SessionTypeOK, Moves
  <2> QED BY <1>1, <1>8, <2>1, <2>2, <2>3 DEF SessionTypeOK
<1>10. Progress(c)' /\ Holds(c)'
  <2>1. ta'[c] = "allocating" => held'[c] = Prefix(k + 1) /\ k + 1 \in 0..6
    BY <1>1, <1>3, <1>7, <1>8 DEF SessionTypeOK, Moves
  <2>2. ta'[c] \in {"allocating", "executing", "panicked"}
    BY <1>1, <1>7, <1>8 DEF SessionTypeOK, Moves
  <2>3. Progress(c)'
    BY <1>1, <1>8, <2>2 DEF Progress, TaBusy
  <2>4. Holds(c)'
    BY <1>1, <1>8, <2>1, <2>2 DEF Holds
  <2> QED BY <2>3, <2>4
<1>11. ASSUME NEW d \in Clients, d # c PROVE Progress(d)' /\ Holds(d)'
  <2>1. held'[d] = held[d] /\ ta'[d] = ta[d]
    BY <1>1, <1>7, <1>11 DEF SessionTypeOK, Moves
  <2> QED BY <1>8, <1>11, <2>1, OthersKept
<1> QED BY <1>9, <1>10, <1>11 DEF SInv

-----------------------------------------------------------------------------
LEMMA SInvInit == Init => SInv
<1> SUFFICES ASSUME Init PROVE SInv
  OBVIOUS
<1>1. Live = {}
  BY DEF Init, Live
<1>2. SessionTypeOK
  <2>1. Cardinality(Live) <= Instances
    BY <1>1, FS_EmptySet, SessionAssumption
  <2> QED BY <2>1 DEF Init, SessionTypeOK, Ended
<1>3. \A c \in Clients : Progress(c) /\ Holds(c)
  BY DEF Init, Progress, Holds
<1> QED BY <1>1, <1>2, <1>3, FS_EmptySet DEF SInv

LEMMA SInvNext == SInv /\ [Next]_vars => SInv'
<1> SUFFICES ASSUME SInv, [Next]_vars PROVE SInv'
  OBVIOUS
<1>1. CASE Next
  <2>1. PICK c \in Clients : ClientStep(c) \/ cleanup(c) \/ TaStep(c)
    BY <1>1 DEF Next
  <2>2. CASE ClientStep(c)
    BY <2>2, InitializeContextKeeps, OpenSessionKeeps, InvokeKeeps, AnswerKeeps, TerminateKeeps
       DEF ClientStep
  <2>3. CASE cleanup(c)
    BY <2>3, CleanupKeeps
  <2>4. CASE TaStep(c)
    BY <2>4, AllocateKeeps, ExecuteKeeps, MakeResultKeeps, PrintKeeps DEF TaStep
  <2> QED BY <2>1, <2>2, <2>3, <2>4
<1>2. CASE UNCHANGED vars
  <2>1. SessionTypeOK' /\ IsFiniteSet(Live)'
    BY <1>2, LiveSame DEF SInv, SessionTypeOK, vars
  <2>2. ASSUME NEW c \in Clients PROVE Progress(c)' /\ Holds(c)'
    <3>1. Progress(c) /\ Holds(c)
      BY DEF SInv
    <3> QED BY <1>2, <3>1 DEF Progress, Holds, vars
  <2> QED BY <2>1, <2>2 DEF SInv
<1> QED BY <1>1, <1>2

LEMMA SInvAlways == Spec => []SInv
  BY SInvInit, SInvNext, PTL DEF Spec

\* Whatever clients and instances do, fail or panic, secure memory never has to
\* hold more instances than it has room for, and what tscvee_main allocates are
\* the objects it names, in their order.
THEOREM SessionTypeCorrect == Spec => []SessionTypeOK
<1>1. SInv => SessionTypeOK
  BY DEF SInv
<1> QED BY <1>1, SInvAlways, PTL

\* A client that reports success has had exactly one finished execution.
THEOREM ExecutedOnce == Spec => []Executed
<1>1. SInv => Executed
  BY DEF SInv, Progress, Executed, Commands
<1> QED BY <1>1, SInvAlways, PTL

\* An answer with an output means that memory, result and buffer were there.
THEOREM OutputAlwaysBacked == Spec => []OutputBacked
<1>1. SInv => OutputBacked
  BY DEF SInv, Holds, OutputBacked
<1> QED BY <1>1, SInvAlways, PTL
=============================================================================
