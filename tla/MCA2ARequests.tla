---------------------------- MODULE MCA2ARequests ----------------------------
\* The requests that the instances of the A2A stores choose from.
EXTENDS A2ATasks

CONSTANTS alice, bob, m1, m2, c1

send(p, m, now) ==
  [method |-> "SendMessage", principal |-> p, message |-> m,
   task |-> None, context |-> TRUE, returnImmediately |-> now]

\* m2 continues the task of the call c1.
continue(p, context, now) ==
  [method |-> "SendMessage", principal |-> p, message |-> m2,
   task |-> c1, context |-> context, returnImmediately |-> now]

ask(method, p) == [method |-> method, principal |-> p, task |-> c1]

\* Two principals use one message id, and each asks for the task of the call c1.
MixedRequests ==
  {send(p, m1, now) : p \in {alice, bob}, now \in BOOLEAN}
    \cup {ask(method, p) : method \in {"GetTask", "CancelTask"}, p \in {alice, bob}}
    \cup {continue(alice, TRUE, FALSE)}

\* One client, one message, with its repetitions and a cancellation.
RetryRequests ==
  {send(alice, m1, now) : now \in BOOLEAN} \cup {ask("CancelTask", alice)}

\* One client sends, continues, reads and cancels a task.
ContinueRequests ==
  {send(alice, m1, now) : now \in BOOLEAN}
    \cup {continue(alice, FALSE, FALSE), continue(alice, TRUE, TRUE)}
    \cup {ask(method, alice) : method \in {"GetTask", "CancelTask"}}
=============================================================================
