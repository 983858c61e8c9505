--------------------------- MODULE WalletRegistry ---------------------------
(***************************************************************************)
(* What the wallet manager promises to concurrent callers: each call has   *)
(* its whole effect at one moment between its start and its return.  A     *)
(* create registers a wallet unless its ID is taken, when it returns the   *)
(* wallet that has it, or its key is, when it throws.                      *)
(***************************************************************************)
EXTENDS Naturals

CONSTANTS Thread, Id, Key, MaxCalls

VARIABLES
  reg,      \* the registered wallets: ID -> key
  call,     \* what each thread is calling
  result,   \* what its last call returned
  calls     \* how many calls it has made

vars == <<reg, call, result, calls>>

Call == [op : {"create"}, id : Id, key : Key] \cup [op : {"destroy"}, id : Id]
Idle == [op |-> "idle"]
Wallet(k) == [st |-> "wallet", key |-> k]
Thrown == [st |-> "throw"]
Done == [st |-> "done"]

Init ==
  /\ reg = [i \in {} |-> Idle]
  /\ call = [t \in Thread |-> Idle]
  /\ result = [t \in Thread |-> Done]
  /\ calls = [t \in Thread |-> 0]

Invoke(t, c) ==
  /\ call[t] = Idle /\ calls[t] < MaxCalls
  /\ call' = [call EXCEPT ![t] = c]
  /\ calls' = [calls EXCEPT ![t] = @ + 1]
  /\ UNCHANGED <<reg, result>>

Registered(id, k) == [i \in DOMAIN reg \cup {id} |-> IF i = id THEN k ELSE reg[i]]
Without(id) == [i \in DOMAIN reg \ {id} |-> reg[i]]

Complete(t) ==
  /\ call[t] # Idle
  /\ LET c == call[t] IN
     \/ /\ c.op = "create" /\ c.id \in DOMAIN reg
        /\ reg' = reg /\ result' = [result EXCEPT ![t] = Wallet(reg[c.id])]
     \/ /\ c.op = "create" /\ c.id \notin DOMAIN reg /\ \E i \in DOMAIN reg : reg[i] = c.key
        /\ reg' = reg /\ result' = [result EXCEPT ![t] = Thrown]
     \/ /\ c.op = "create" /\ c.id \notin DOMAIN reg /\ \A i \in DOMAIN reg : reg[i] # c.key
        /\ reg' = Registered(c.id, c.key) /\ result' = [result EXCEPT ![t] = Wallet(c.key)]
     \/ /\ c.op = "destroy"
        /\ reg' = Without(c.id) /\ result' = [result EXCEPT ![t] = Done]
  /\ call' = [call EXCEPT ![t] = Idle]
  /\ UNCHANGED calls

Next == \E t \in Thread : Complete(t) \/ \E c \in Call : Invoke(t, c)

Safety == Init /\ [][Next]_vars
Spec == Safety /\ \A t \in Thread : WF_vars(Complete(t))
=============================================================================
