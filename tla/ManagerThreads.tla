--------------------------- MODULE ManagerThreads ---------------------------
(***************************************************************************)
(* The threads of a host application inside MasterWalletManager: creating  *)
(* and destroying wallets step by step, between the steps of each other.   *)
(*                                                                         *)
(* Every operation takes the manager's mutex in a scoped_lock, but one:    *)
(* CreateMasterWallet with a single private key does not (Unlocked).  The  *)
(* accounts are single-key accounts, which that call creates and           *)
(* ImportWalletWithKeystore, which locks, can also create.  The accesses   *)
(* to the map are atomic here, which is the mildest outcome of the race on *)
(* it.                                                                     *)
(***************************************************************************)
EXTENDS Naturals, FiniteSets

CONSTANTS
  Thread,     \* the threads of the host application
  Unlocked,   \* the ones that create with a single private key
  NoThread,   \* the mutex is free
  Id,         \* wallet IDs
  Key,        \* private keys
  NoKey,      \* no store in a wallet's directory
  MaxCalls    \* bound: calls of each thread

ASSUME ThreadAssumption == Unlocked \subseteq Thread /\ NoThread \notin Thread
ASSUME KeyAssumption == NoKey \notin Key /\ MaxCalls \in Nat

Call == [op : {"create"}, id : Id, key : Key] \cup [op : {"destroy"}, id : Id]
Idle == [op |-> "idle"]
Wallet(k) == [st |-> "wallet", key |-> k]
Thrown == [st |-> "throw"]
Done == [st |-> "done"]

VARIABLES
  lock,              \* _lock: the thread in a scoped_lock
  masterWalletMap,   \* _masterWalletMap: ID -> the wallet object
  disk,              \* the key in the LocalStore of every ID
  held,              \* the wallet objects handed out and not destroyed
  pc, call,          \* where each thread is, and in which call
  result, calls      \* what its last call returned, and how many it made

vars == <<lock, masterWalletMap, disk, held, pc, call, result, calls>>

\* An object is told from every other by the call that made it.
Object == [id : Id, key : Key, by : Thread, at : Nat]
NewObject(t) == [id |-> call[t].id, key |-> call[t].key, by |-> t, at |-> calls[t]]

Init ==
  /\ lock = NoThread
  /\ masterWalletMap = [i \in {} |-> Idle]
  /\ disk = [i \in Id |-> NoKey]
  /\ held = {}
  /\ pc = [t \in Thread |-> "idle"]
  /\ call = [t \in Thread |-> Idle]
  /\ result = [t \in Thread |-> Done]
  /\ calls = [t \in Thread |-> 0]
-----------------------------------------------------------------------------
Invoke(t, c) ==
  /\ pc[t] = "idle" /\ calls[t] < MaxCalls
  /\ pc' = [pc EXCEPT ![t] = "enter"]
  /\ call' = [call EXCEPT ![t] = c]
  /\ calls' = [calls EXCEPT ![t] = @ + 1]
  /\ UNCHANGED <<lock, masterWalletMap, disk, held, result>>

NeedsLock(t) == t \notin Unlocked \/ call[t].op = "destroy"

\* Mutant: the lock is not taken.
EnterWithoutLock(t) ==
  /\ pc[t] = "enter"
  /\ pc' = [pc EXCEPT ![t] = IF call[t].op = "create" THEN "find" ELSE "removeStore"]
  /\ UNCHANGED <<lock, masterWalletMap, disk, held, call, result, calls>>

\* The scoped_lock at the head of the operation.
Enter(t) ==
  /\ pc[t] = "enter"
  /\ IF NeedsLock(t) THEN lock = NoThread /\ lock' = t ELSE UNCHANGED lock
  /\ pc' = [pc EXCEPT ![t] = IF call[t].op = "create" THEN "find" ELSE "removeStore"]
  /\ UNCHANGED <<masterWalletMap, disk, held, call, result, calls>>

Goto(t, l) == pc' = [pc EXCEPT ![t] = l] /\ UNCHANGED <<lock, held, call, result, calls>>

\* Mutant: an exception leaves the mutex locked.
ThrowKeepsLock(t, r) ==
  /\ pc' = [pc EXCEPT ![t] = "idle"]
  /\ call' = [call EXCEPT ![t] = Idle]
  /\ result' = [result EXCEPT ![t] = r]
  /\ lock' = IF lock = t /\ r # Thrown THEN NoThread ELSE lock
  /\ UNCHANGED calls

\* Return or exception: the scoped_lock is released.
Return(t, r) ==
  /\ pc' = [pc EXCEPT ![t] = "idle"]
  /\ call' = [call EXCEPT ![t] = Idle]
  /\ result' = [result EXCEPT ![t] = r]
  /\ lock' = IF lock = t THEN NoThread ELSE lock
  /\ UNCHANGED calls

(***************************************************************************)
(* Creating a wallet: the map is searched, the object built and saved, the *)
(* map searched for an equal wallet (checkRedundant), the object put into  *)
(* the map.                                                                *)
(***************************************************************************)
Find(t) ==
  /\ pc[t] = "find"
  /\ \/ /\ call[t].id \in DOMAIN masterWalletMap
        /\ held' = held \cup {masterWalletMap[call[t].id]}
        /\ Return(t, Wallet(masterWalletMap[call[t].id].key))
        /\ UNCHANGED <<masterWalletMap, disk>>
     \/ /\ call[t].id \notin DOMAIN masterWalletMap
        /\ Goto(t, "construct")
        /\ UNCHANGED <<masterWalletMap, disk>>

Construct(t) ==
  /\ pc[t] = "construct"
  /\ disk' = [disk EXCEPT ![call[t].id] = call[t].key]
  /\ Goto(t, "checkRedundant")
  /\ UNCHANGED masterWalletMap

IsRedundant(k) == \E i \in DOMAIN masterWalletMap : masterWalletMap[i].key = k

\* Mutant: only the wallet of the same ID is compared.
CheckSameIdOnly(t) ==
  /\ pc[t] = "checkRedundant"
  /\ Goto(t, "insert")
  /\ UNCHANGED <<masterWalletMap, disk>>

CheckRedundant(t) ==
  /\ pc[t] = "checkRedundant"
  /\ Goto(t, IF IsRedundant(call[t].key) THEN "refuse" ELSE "insert")
  /\ UNCHANGED <<masterWalletMap, disk>>

\* Mutant: the store of a refused wallet stays.
RefuseKeepsStore(t) ==
  /\ pc[t] = "refuse"
  /\ Return(t, Thrown)
  /\ UNCHANGED <<masterWalletMap, disk, held>>

\* The redundant wallet's store is removed.
Refuse(t) ==
  /\ pc[t] = "refuse"
  /\ disk' = [disk EXCEPT ![call[t].id] = NoKey]
  /\ Return(t, Thrown)
  /\ UNCHANGED <<masterWalletMap, held>>

Insert(t) ==
  /\ pc[t] = "insert"
  /\ masterWalletMap' = [i \in DOMAIN masterWalletMap \cup {call[t].id} |->
                           IF i = call[t].id THEN NewObject(t) ELSE masterWalletMap[i]]
  /\ held' = held \cup {NewObject(t)}
  /\ Return(t, Wallet(call[t].key))
  /\ UNCHANGED disk

(***************************************************************************)
(* Destroying one: its store is removed, then it leaves the map and is     *)
(* deleted.                                                                *)
(***************************************************************************)
RemoveStore(t) ==
  /\ pc[t] = "removeStore"
  /\ \/ /\ call[t].id \in DOMAIN masterWalletMap
        /\ disk' = [disk EXCEPT ![call[t].id] = NoKey]
        /\ Goto(t, "erase")
        /\ UNCHANGED masterWalletMap
     \/ /\ call[t].id \notin DOMAIN masterWalletMap
        /\ Return(t, Done)
        /\ UNCHANGED <<masterWalletMap, disk, held>>

Erase(t) ==
  /\ pc[t] = "erase"
  /\ held' = held \ {masterWalletMap[call[t].id]}
  /\ masterWalletMap' = [i \in DOMAIN masterWalletMap \ {call[t].id} |-> masterWalletMap[i]]
  /\ Return(t, Done)
  /\ UNCHANGED disk

Step(t) ==
  \/ Enter(t) \/ Find(t) \/ Construct(t) \/ CheckRedundant(t) \/ Refuse(t) \/ Insert(t)
  \/ RemoveStore(t) \/ Erase(t)

Next == \E t \in Thread : Step(t) \/ \E c \in Call : Invoke(t, c)

\* A thread inside a call is scheduled; how many calls threads make is bounded,
\* so the mutex need not be fair.
Fairness == \A t \in Thread : WF_vars(Step(t))
Safety == Init /\ [][Next]_vars
Spec == Safety /\ Fairness
-----------------------------------------------------------------------------
(***************************************************************************)
(* Properties.                                                             *)
(***************************************************************************)
Label == {"idle", "enter", "find", "construct", "checkRedundant", "refuse", "insert",
          "removeStore", "erase"}
TypeOK ==
  /\ lock \in Thread \cup {NoThread}
  /\ DOMAIN masterWalletMap \subseteq Id
  /\ \A i \in DOMAIN masterWalletMap : masterWalletMap[i] \in Object /\ masterWalletMap[i].id = i
  /\ disk \in [Id -> Key \cup {NoKey}]
  /\ held \subseteq Object
  /\ pc \in [Thread -> Label]
  /\ call \in [Thread -> Call \cup {Idle}]
  /\ \A t \in Thread : pc[t] = "idle" <=> call[t] = Idle
  /\ calls \in [Thread -> 0..MaxCalls]

\* A wallet object a caller was handed is the one the manager knows by its ID until
\* DestroyWallet deletes it: no other call replaces it in the map and forgets it.
HeldIsRegistered ==
  \A o \in held : o.id \in DOMAIN masterWalletMap /\ masterWalletMap[o.id] = o

\* While no call is under way the stores on the disk are those of the wallets in the
\* map: no create or destroy takes the store of another thread's wallet with it.
RegisteredIsStored ==
  (\A t \in Thread : pc[t] \in {"idle", "enter"}) =>
    \A i \in Id : disk[i] = IF i \in DOMAIN masterWalletMap THEN masterWalletMap[i].key ELSE NoKey

\* No key is in two wallets: checkRedundant's answer still holds at the insertion.
OneWalletPerKey ==
  \A i, j \in DOMAIN masterWalletMap : masterWalletMap[i].key = masterWalletMap[j].key => i = j

\* Every call returns or throws, and the mutex is free for the next.
EveryCallReturns == \A t \in Thread : pc[t] # "idle" ~> pc[t] = "idle"

\* The calls take effect one at a time, as WalletRegistry says.
Registry ==
  INSTANCE WalletRegistry WITH
    reg <- [i \in DOMAIN masterWalletMap |-> masterWalletMap[i].key]
Linearizable == Registry!Spec
=============================================================================
