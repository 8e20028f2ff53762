------------------------------ MODULE Sessions ------------------------------
(***************************************************************************)
(* Calls of the MCP tools that write (src/chips/mcp/server.py,             *)
(* mcp/modules).  Each client has a server process of its own, which       *)
(* handles one call at a time over a connection it opens for the call and  *)
(* closes after it; a statement is a step, at READ COMMITTED.              *)
(***************************************************************************)
EXTENDS Integers, Sequences, SequencesExt

CONSTANTS
    Clients,        \* server processes
    None,           \* Python's None, SQL's NULL
    MaxCalls,       \* bound on the calls of all clients
    MaxCrashes      \* bound on the calls that die

ASSUME BoundsAssumption == MaxCalls \in Nat /\ MaxCrashes \in Nat

VARIABLES
    pc,         \* where each client's call is, or "idle"
    call,       \* its arguments and local variables
    answer,     \* what each client's last call returned or raised, if it ended
    calls,
    crashes

session == <<pc, call, answer, calls, crashes>>

NoCall == [tool |-> None]
NoAnswer == [call |-> NoCall, status |-> "none", result |-> None]

SessionInit ==
    /\ pc = [c \in Clients |-> "idle"]
    /\ call = [c \in Clients |-> NoCall]
    /\ answer = [c \in Clients |-> NoAnswer]
    /\ calls = 0
    /\ crashes = 0

Begin(c, stage, arguments) ==
    /\ pc[c] = "idle"
    /\ calls < MaxCalls
    /\ pc' = [pc EXCEPT ![c] = stage]
    /\ call' = [call EXCEPT ![c] = arguments]
    /\ answer' = [answer EXCEPT ![c] = NoAnswer]
    /\ calls' = calls + 1
    /\ UNCHANGED crashes

\* On to another stage, with other local variables.
Go(c, stage, locals) ==
    /\ pc' = [pc EXCEPT ![c] = stage]
    /\ call' = [call EXCEPT ![c] = locals]
    /\ UNCHANGED <<answer, calls, crashes>>

Goto(c, stage) ==
    /\ pc' = [pc EXCEPT ![c] = stage]
    /\ UNCHANGED <<call, answer, calls, crashes>>

\* The call returns or raises something; either way its connection is closed.
End(c, status, result) ==
    /\ pc' = [pc EXCEPT ![c] = "idle"]
    /\ call' = [call EXCEPT ![c] = NoCall]
    /\ answer' = [answer EXCEPT ![c] = [call |-> call[c], status |-> status, result |-> result]]
    /\ UNCHANGED <<calls, crashes>>

\* The process or its connection dies, or the answer is lost.
Die(c) ==
    /\ pc[c] # "idle"
    /\ crashes < MaxCrashes
    /\ crashes' = crashes + 1
    /\ pc' = [pc EXCEPT ![c] = "idle"]
    /\ call' = [call EXCEPT ![c] = NoCall]
    /\ UNCHANGED <<answer, calls>>

=============================================================================
