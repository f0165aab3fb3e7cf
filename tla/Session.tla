------------------------------ MODULE Session ------------------------------
(***************************************************************************)
(* Clients in the normal world (host/main.c) and the trusted application   *)
(* (tscvee_ta.c).  The TA is a multi-instance TA: each session has an      *)
(* instance and a heap of its own.  The TEE OS makes the instance when the *)
(* session is opened and takes it back when the session is closed, also    *)
(* for a client that is gone.                                              *)
(*                                                                         *)
(* What happens inside an execution is in Interpreter and Memory; here it  *)
(* is a step with any status, or a panic.                                  *)
(***************************************************************************)
EXTENDS Integers, Sequences, FiniteSets

CONSTANTS
    Clients,
    Args,       (* of {"run", "bench", "other", "missing"}: argv[1]         *)
    Instances,  (* how many instances secure memory has room for            *)
    Statuses    (* of an execution                                          *)

ASSUME SessionAssumption ==
    /\ Args \subseteq {"run", "bench", "other", "missing"} /\ Instances \in Nat
    /\ {"SUCCESS", "REVERT"} \subseteq Statuses /\ {"OUT_OF_MEMORY", "none"} \cap Statuses = {}

VARIABLES
    arg,
    client,     (* where main is                                            *)
    ta,         (* where the instance of the client's session is            *)
    held,       (* what the instance has allocated; nothing is freed        *)
    executions, (* how many executions it has begun                         *)
    status,     (* the status of the last one                               *)
    output      (* whether it returned an output                            *)

vars == <<arg, client, ta, held, executions, status, output>>

Live == {c \in Clients : ta[c] \notin {"absent", "destroyed"}}
Ended == {"done", "failed", "crashed"}

\* The objects of an execution, in the order they are allocated.
Objects == <<"vm", "code", "input", "host", "msg", "state", "memory">>

Goes(c, there) == client' = [client EXCEPT ![c] = there]
Moves(c, there) == ta' = [ta EXCEPT ![c] = there]

-----------------------------------------------------------------------------
\* The client.

\* errx ends the process with the session as it is.
initialize_context(c) ==
    /\ client[c] = "start"
    /\ Goes(c, "connected") \/ Goes(c, "failed")
    /\ UNCHANGED <<arg, ta, held, executions, status, output>>

\* Mutant of open_session: no limit on instances.
open_session_again(c) ==
    /\ client[c] = "connected"
    /\ Goes(c, "opened") /\ Moves(c, "idle")
    /\ UNCHANGED <<arg, held, executions, status, output>>

\* TEEC_OpenSession, TA_CreateEntryPoint and TA_OpenSessionEntryPoint.
open_session(c) ==
    /\ client[c] = "connected"
    /\ \/ Cardinality(Live) < Instances /\ Goes(c, "opened") /\ Moves(c, "idle")
       \/ Goes(c, "failed") /\ UNCHANGED ta
    /\ UNCHANGED <<arg, held, executions, status, output>>

\* argv[1] is compared before argc is looked at.
invoke(c) ==
    /\ client[c] = "opened"
    /\ \/ arg[c] = "missing" /\ Goes(c, "crashed") /\ UNCHANGED ta
       \/ arg[c] = "other" /\ Goes(c, "closing") /\ UNCHANGED ta
       \/ arg[c] \in {"run", "bench"} /\ Goes(c, "waiting") /\ Moves(c, "allocating")
    /\ UNCHANGED <<arg, held, executions, status, output>>

\* Mutant of answer: the result of the command is not looked at.
answer_any(c) ==
    /\ client[c] = "waiting" /\ ta[c] \in {"answered", "panicked"}
    /\ Goes(c, "closing")
    /\ UNCHANGED <<arg, ta, held, executions, status, output>>

\* Mutant of answer: the client waits for the answer of a dead instance.
answer_waits(c) ==
    /\ client[c] = "waiting" /\ ta[c] = "answered"
    /\ Goes(c, "closing")
    /\ UNCHANGED <<arg, ta, held, executions, status, output>>

\* The command returns: TEE_SUCCESS from tscvee_main, TEE_ERROR_TARGET_DEAD for
\* an instance that panicked.
answer(c) ==
    /\ client[c] = "waiting"
    /\ \/ ta[c] = "answered" /\ Goes(c, "closing")
       \/ ta[c] = "panicked" /\ Goes(c, "failed")
    /\ UNCHANGED <<arg, ta, held, executions, status, output>>

Destroyed(c) == Moves(c, "destroyed") /\ held' = [held EXCEPT ![c] = {}]

\* TA_CloseSessionEntryPoint and TA_DestroyEntryPoint.
terminate(c) ==
    /\ client[c] = "closing"
    /\ Goes(c, "done") /\ Destroyed(c)
    /\ UNCHANGED <<arg, executions, status, output>>

\* The TEE driver closes the sessions of a process that is gone.
cleanup(c) ==
    /\ client[c] \in {"failed", "crashed"} /\ c \in Live
    /\ Destroyed(c)
    /\ UNCHANGED <<arg, client, executions, status, output>>

-----------------------------------------------------------------------------
\* tscvee_main.

Next_object(c) == Objects[Cardinality(held[c]) + 1]

\* TEE_Malloc, and vm_init, from_hex, MockedHost_init, EVMCMessage_init_v or
\* AdvancedExecutionState_init_v, which write to what it returned.  Only the
\* missing memory is noticed, and logged.
allocate(c) ==
    /\ ta[c] = "allocating"
    /\ \/ /\ held' = [held EXCEPT ![c] = @ \cup {Next_object(c)}]
          /\ IF Next_object(c) = "memory" THEN Moves(c, "executing") ELSE UNCHANGED ta
       \/ /\ Moves(c, IF Next_object(c) = "memory" THEN "executing" ELSE "panicked")
          /\ UNCHANGED held
    /\ UNCHANGED <<arg, client, executions, status, output>>

\* vm->execute up to evmc_make_result.  Without memory an execution that has an
\* output has used the null pointer.  The flag of the command makes no difference.
execute(c) ==
    /\ ta[c] = "executing"
    /\ executions' = [executions EXCEPT ![c] = @ + 1]
    /\ \/ \E s \in Statuses, out \in BOOLEAN :
             /\ out => s \in {"SUCCESS", "REVERT"} /\ "memory" \in held[c]
             /\ status' = [status EXCEPT ![c] = s]
             /\ output' = [output EXCEPT ![c] = out]
             /\ Moves(c, "returning")
       \/ Moves(c, "panicked") /\ UNCHANGED <<status, output>>
    /\ UNCHANGED <<arg, client, held>>

\* Mutant of evmc_make_result: the allocation is not checked.
evmc_make_result_unchecked(c) ==
    /\ ta[c] = "returning"
    /\ Moves(c, "printing")
    /\ held' = [held EXCEPT ![c] = @ \cup {"result"}] \/ UNCHANGED held
    /\ UNCHANGED <<arg, client, executions, status, output>>

\* evmc_make_result copies the output; it notices a failed allocation.
evmc_make_result(c) ==
    /\ ta[c] = "returning"
    /\ Moves(c, "printing")
    /\ \/ ~output[c] /\ UNCHANGED <<held, status, output>>
       \/ output[c] /\ held' = [held EXCEPT ![c] = @ \cup {"result"}] /\ UNCHANGED <<status, output>>
       \/ /\ output[c]
          /\ status' = [status EXCEPT ![c] = "OUT_OF_MEMORY"]
          /\ output' = [output EXCEPT ![c] = FALSE]
          /\ UNCHANGED held
    /\ UNCHANGED <<arg, client, executions>>

\* The output is written in hexadecimal to a buffer of two characters a byte and
\* two; whatever the status, the answer is TEE_SUCCESS.
print(c) ==
    /\ ta[c] = "printing"
    /\ \/ status[c] \notin {"SUCCESS", "REVERT"} /\ Moves(c, "answered") /\ UNCHANGED held
       \/ /\ status[c] \in {"SUCCESS", "REVERT"}
          /\ \/ Moves(c, "answered") /\ held' = [held EXCEPT ![c] = @ \cup {"output"}]
             \/ Moves(c, "panicked") /\ UNCHANGED held
    /\ UNCHANGED <<arg, client, executions, status, output>>

-----------------------------------------------------------------------------
Init ==
    /\ arg \in [Clients -> Args]
    /\ client = [c \in Clients |-> "start"]
    /\ ta = [c \in Clients |-> "absent"]
    /\ held = [c \in Clients |-> {}]
    /\ executions = [c \in Clients |-> 0]
    /\ status = [c \in Clients |-> "none"]
    /\ output = [c \in Clients |-> FALSE]

ClientStep(c) ==
    initialize_context(c) \/ open_session(c) \/ invoke(c) \/ answer(c) \/ terminate(c)

TaStep(c) == allocate(c) \/ execute(c) \/ evmc_make_result(c) \/ print(c)

Next == \E c \in Clients : ClientStep(c) \/ cleanup(c) \/ TaStep(c)

\* The operating systems schedule every process and thread, the driver releases
\* what a process leaves, and an execution ends (Termination in Interpreter, of
\* executions in which nothing charges a negative amount).
Fairness == \A c \in Clients : WF_vars(ClientStep(c)) /\ WF_vars(TaStep(c)) /\ WF_vars(cleanup(c))

Spec == Init /\ [][Next]_vars /\ Fairness

-----------------------------------------------------------------------------
\* Type invariant.
SessionTypeOK ==
    /\ arg \in [Clients -> Args]
    /\ client \in [Clients -> {"start", "connected", "opened", "waiting", "closing"} \cup Ended]
    /\ ta \in [Clients -> {"absent", "idle", "allocating", "executing", "returning", "printing",
                           "answered", "panicked", "destroyed"}]
    /\ held \in [Clients -> SUBSET ({Objects[i] : i \in 1..7} \cup {"result", "output"})]
    /\ executions \in [Clients -> Nat] /\ output \in [Clients -> BOOLEAN]
    /\ status \in [Clients -> Statuses \cup {"none", "OUT_OF_MEMORY"}]
    /\ Cardinality(Live) <= Instances

\* A client that reports the contract as executed has had it executed once, to an
\* end with a status, however instances and clients interleave, fail and panic.
Executed ==
    \A c \in Clients :
        client[c] = "done" /\ arg[c] \in {"run", "bench"} => executions[c] = 1 /\ status[c] # "none"

\* An output that is printed was copied through buffers that were allocated: no
\* failed allocation on the way is overlooked.  Of memory, whose allocation the
\* code does not check, the property says that it is still there; that no output
\* comes of a null pointer is how execute models the access through one.
OutputBacked ==
    \A c \in Clients :
        ta[c] = "answered" /\ output[c] => {"memory", "result", "output"} \subseteq held[c]

\* Every client comes to an end, and in the end no instance and nothing of what
\* the instances allocated is left, also after errors, panics and crashes.
AllReleased ==
    <>[](\A c \in Clients : client[c] \in Ended /\ c \notin Live /\ held[c] = {})
=============================================================================
