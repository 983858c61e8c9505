------------------------ MODULE ManagerThreadsProofs ------------------------
(***************************************************************************)
(* With every operation under the mutex (Unlocked is empty), any number of *)
(* threads, IDs and keys: the map, the stores and the objects handed out   *)
(* agree, and the calls implement WalletRegistry.                          *)
(*                                                                         *)
(* The three properties say nothing of a thread half way through a call.   *)
(* The invariant does: the thread past "enter" is the one that holds the   *)
(* mutex (OnlyHolderInside), what it found in the map still is so          *)
(* (FoundStands), and the one store that differs from the map is the one   *)
(* it is at work on (StoreInHand).                                         *)
(***************************************************************************)
EXTENDS ManagerThreads, TLAPS

Inside(t) == pc[t] \notin {"idle", "enter"}
Creating(t) == pc[t] \in {"find", "construct", "checkRedundant", "refuse", "insert"}
Destroying(t) == pc[t] \in {"removeStore", "erase"}

OnlyHolderInside == \A t \in Thread : Inside(t) => lock = t

CallMatchesLabel ==
  \A t \in Thread : /\ Creating(t) => call[t].op = "create"
                    /\ Destroying(t) => call[t].op = "destroy"

FoundStands ==
  \A t \in Thread :
    /\ pc[t] \in {"construct", "checkRedundant", "refuse", "insert"} =>
         call[t].id \notin DOMAIN masterWalletMap
    /\ pc[t] = "erase" => call[t].id \in DOMAIN masterWalletMap
    /\ pc[t] = "refuse" => IsRedundant(call[t].key)
    /\ pc[t] = "insert" => ~IsRedundant(call[t].key)

StoredKey(i) == IF i \in DOMAIN masterWalletMap THEN masterWalletMap[i].key ELSE NoKey
InHand(t, i) == pc[t] \in {"checkRedundant", "refuse", "insert", "erase"} /\ call[t].id = i

StoreInHand ==
  /\ \A i \in Id : disk[i] = StoredKey(i) \/ \E t \in Thread : InHand(t, i)
  /\ \A t \in Thread :
       /\ pc[t] \in {"checkRedundant", "refuse", "insert"} => disk[call[t].id] = call[t].key
       /\ pc[t] = "erase" => disk[call[t].id] = NoKey

ThreadsInv ==
  /\ TypeOK /\ OnlyHolderInside /\ CallMatchesLabel /\ FoundStands /\ StoreInHand
  /\ HeldIsRegistered /\ OneWalletPerKey

\* The fields of a call.
LEMMA CallFields ==
  /\ \A c \in Call : c.id \in Id /\ c # Idle /\ c.op \in {"create", "destroy"}
  /\ \A c \in Call : c.op = "create" => c.key \in Key
  BY DEF Call, Idle

\* Two threads are never inside at once.
LEMMA Exclusive ==
  ASSUME OnlyHolderInside, NEW t \in Thread, NEW u \in Thread, Inside(t), Inside(u)
  PROVE  t = u
  BY DEF OnlyHolderInside

\* No wallet, nobody inside.
LEMMA InitThreads == Init => ThreadsInv
<1> SUFFICES ASSUME Init PROVE ThreadsInv
  OBVIOUS
<1>1. DOMAIN masterWalletMap = {} /\ held = {} /\ lock = NoThread
  BY DEF Init
<1>2. \A t \in Thread : pc[t] = "idle" /\ call[t] = Idle
  BY DEF Init
<1>3. TypeOK
  BY <1>1, <1>2, KeyAssumption DEF Init, TypeOK, Label
<1>4. OnlyHolderInside /\ CallMatchesLabel /\ FoundStands
  BY <1>2 DEF OnlyHolderInside, CallMatchesLabel, FoundStands, Inside, Creating, Destroying
<1>5. StoreInHand
  BY <1>1, <1>2 DEF StoreInHand, StoredKey, Init
<1>6. HeldIsRegistered /\ OneWalletPerKey
  BY <1>1 DEF HeldIsRegistered, OneWalletPerKey
<1>. QED BY <1>3, <1>4, <1>5, <1>6 DEF ThreadsInv

\* A call begins: nothing but the caller's own state changes.
LEMMA InvokeKeeps ==
  ASSUME ThreadsInv, NEW t \in Thread, NEW c \in Call, Invoke(t, c)
  PROVE  ThreadsInv'
<1> USE DEF ThreadsInv, Invoke
<1>1. /\ pc[t] = "idle" /\ pc'[t] = "enter" /\ call'[t] = c
      /\ \A u \in Thread : u # t => pc'[u] = pc[u] /\ call'[u] = call[u]
      /\ \A u \in Thread : pc'[u] \notin {"idle", "enter"} => u # t
  BY DEF TypeOK
<1>2. UNCHANGED <<lock, masterWalletMap, disk, held>>
  OBVIOUS
<1>3. TypeOK'
  <2>1. pc' \in [Thread -> Label] /\ calls' \in [Thread -> 0..MaxCalls]
    BY KeyAssumption DEF TypeOK, Label
  <2>2. call' \in [Thread -> Call \cup {Idle}]
    BY DEF TypeOK
  <2>3. \A u \in Thread : pc'[u] = "idle" <=> call'[u] = Idle
    BY <1>1, CallFields DEF TypeOK
  <2>. QED BY <1>2, <2>1, <2>2, <2>3 DEF TypeOK
<1>4. OnlyHolderInside' /\ CallMatchesLabel'
  BY <1>1, <1>2 DEF OnlyHolderInside, CallMatchesLabel, Inside, Creating, Destroying
<1>5. FoundStands'
  BY <1>1, <1>2 DEF FoundStands, IsRedundant
<1>6. StoreInHand'
  BY <1>1, <1>2 DEF StoreInHand, StoredKey, InHand
<1>7. HeldIsRegistered' /\ OneWalletPerKey'
  BY <1>2 DEF HeldIsRegistered, OneWalletPerKey
<1>. QED BY <1>3, <1>4, <1>5, <1>6, <1>7

\* The mutex is free: nobody is inside.
LEMMA EnterKeeps ==
  ASSUME Unlocked = {}, ThreadsInv, NEW t \in Thread, Enter(t)
  PROVE  ThreadsInv'
<1> USE DEF ThreadsInv, Enter
<1>1. lock = NoThread /\ lock' = t
  BY DEF NeedsLock
<1>2. \A u \in Thread : ~Inside(u)
  BY <1>1, ThreadAssumption DEF OnlyHolderInside
<1>3. call[t] \in Call /\ call' = call /\ UNCHANGED <<masterWalletMap, disk, held, calls>>
  BY DEF TypeOK
<1>4. /\ pc'[t] = (IF call[t].op = "create" THEN "find" ELSE "removeStore")
      /\ \A u \in Thread : u # t => pc'[u] = pc[u]
      /\ pc' \in [Thread -> Label]
  BY DEF TypeOK, Label
<1>5. TypeOK'
  BY <1>1, <1>3, <1>4 DEF TypeOK
<1>6. OnlyHolderInside' /\ CallMatchesLabel'
  BY <1>1, <1>2, <1>3, <1>4, CallFields
     DEF OnlyHolderInside, CallMatchesLabel, Inside, Creating, Destroying
<1>7. FoundStands'
  BY <1>2, <1>3, <1>4 DEF FoundStands, Inside
<1>8. StoreInHand'
  BY <1>2, <1>3, <1>4 DEF StoreInHand, StoredKey, InHand, Inside
<1>9. HeldIsRegistered' /\ OneWalletPerKey'
  BY <1>3 DEF HeldIsRegistered, OneWalletPerKey
<1>. QED BY <1>5, <1>6, <1>7, <1>8, <1>9

\* What a step inside leaves alone: the others are not inside, and stay where
\* they are.
LEMMA OthersOutside ==
  ASSUME ThreadsInv, NEW t \in Thread, Inside(t)
  PROVE  /\ lock = t
         /\ \A u \in Thread : u # t => ~Inside(u)
         /\ call[t] \in Call
  BY Exclusive DEF ThreadsInv, OnlyHolderInside, TypeOK, Inside

\* From one label to the next, inside.
LEMMA GotoTypes ==
  ASSUME ThreadsInv, NEW t \in Thread, NEW l \in Label \ {"idle", "enter"}, Inside(t), Goto(t, l)
  PROVE  /\ pc'[t] = l
         /\ \A u \in Thread : u # t => pc'[u] = pc[u]
         /\ pc' \in [Thread -> Label]
         /\ call' \in [Thread -> Call \cup {Idle}] /\ \A u \in Thread : pc'[u] = "idle" <=> call'[u] = Idle
         /\ OnlyHolderInside'
         /\ \A u \in Thread : u # t => ~Inside(u)'
         /\ UNCHANGED <<lock, held, call, result, calls>>
<1>1. /\ pc'[t] = l
      /\ \A u \in Thread : u # t => pc'[u] = pc[u]
      /\ pc' \in [Thread -> Label]
      /\ UNCHANGED <<lock, held, call, result, calls>>
  BY DEF Goto, ThreadsInv, TypeOK
<1>2. call' \in [Thread -> Call \cup {Idle}] /\ \A u \in Thread : pc'[u] = "idle" <=> call'[u] = Idle
  <2>1. l # "idle" /\ pc[t] # "idle"
    BY DEF Inside
  <2>. QED BY <1>1, <2>1 DEF ThreadsInv, TypeOK
<1>3. \A u \in Thread : u # t => ~Inside(u)'
  BY <1>1, OthersOutside DEF Inside
<1>4. OnlyHolderInside'
  BY <1>1, <1>3, OthersOutside DEF OnlyHolderInside
<1>. QED BY <1>1, <1>2, <1>3, <1>4

\* The end of a call.
LEMMA ReturnTypes ==
  ASSUME ThreadsInv, NEW t \in Thread, NEW r, Inside(t), Return(t, r)
  PROVE  /\ pc'[t] = "idle"
         /\ \A u \in Thread : u # t => pc'[u] = pc[u] /\ call'[u] = call[u]
         /\ pc' \in [Thread -> Label]
         /\ call' \in [Thread -> Call \cup {Idle}] /\ \A u \in Thread : pc'[u] = "idle" <=> call'[u] = Idle
         /\ lock' = NoThread
         /\ \A u \in Thread : ~Inside(u)'
         /\ OnlyHolderInside' /\ CallMatchesLabel' /\ FoundStands'
         /\ calls' = calls
<1>1. /\ pc'[t] = "idle" /\ call'[t] = Idle
      /\ \A u \in Thread : u # t => pc'[u] = pc[u] /\ call'[u] = call[u]
      /\ pc' \in [Thread -> Label]
      /\ lock' = NoThread /\ calls' = calls
  <2>1. lock = t
    BY OthersOutside
  <2>2. DOMAIN call = Thread
    BY DEF ThreadsInv, TypeOK
  <2>. QED BY <2>1, <2>2 DEF Return, ThreadsInv, TypeOK, Label
<1>2. call' \in [Thread -> Call \cup {Idle}] /\ \A u \in Thread : pc'[u] = "idle" <=> call'[u] = Idle
  <2>1. call' \in [Thread -> Call \cup {Idle}]
    BY DEF Return, ThreadsInv, TypeOK
  <2>. QED BY <1>1, <2>1 DEF ThreadsInv, TypeOK
<1>3. \A u \in Thread : ~Inside(u)'
  BY <1>1, OthersOutside DEF Inside
<1>4. OnlyHolderInside' /\ CallMatchesLabel' /\ FoundStands'
  BY <1>3 DEF OnlyHolderInside, CallMatchesLabel, FoundStands, Inside, Creating, Destroying
<1>. QED BY <1>1, <1>2, <1>3, <1>4

\* The map is searched for the ID: the existing wallet is returned, or the create goes on.
LEMMA FindKeeps ==
  ASSUME ThreadsInv, NEW t \in Thread, Find(t)
  PROVE  ThreadsInv'
<1>0. Inside(t) /\ UNCHANGED <<masterWalletMap, disk>>
  BY DEF Find, Inside
<1>1. CASE /\ call[t].id \in DOMAIN masterWalletMap
           /\ held' = held \cup {masterWalletMap[call[t].id]}
           /\ Return(t, Wallet(masterWalletMap[call[t].id].key))
  <2>1. \A u \in Thread : ~Inside(u)'
    BY <1>0, <1>1, ReturnTypes
  <2>2. masterWalletMap[call[t].id] \in Object /\ masterWalletMap[call[t].id].id = call[t].id
    BY <1>1 DEF ThreadsInv, TypeOK
  <2>3. TypeOK'
    BY <1>0, <1>1, <2>2, ReturnTypes DEF ThreadsInv, TypeOK
  <2>4. OnlyHolderInside' /\ CallMatchesLabel' /\ FoundStands'
    BY <1>0, <1>1, ReturnTypes
  <2>5. StoreInHand'
    <3>1. \A i \in Id, u \in Thread : ~InHand(u, i)
      BY <1>0, OthersOutside DEF Find, InHand, Inside
    <3>2. \A i \in Id : disk'[i] = StoredKey(i)'
      BY <1>0, <3>1 DEF ThreadsInv, StoreInHand, StoredKey
    <3>. QED BY <2>1, <3>2 DEF StoreInHand, Inside
  <2>6. HeldIsRegistered' /\ OneWalletPerKey'
    BY <1>0, <1>1, <2>2 DEF ThreadsInv, HeldIsRegistered, OneWalletPerKey
  <2>. QED BY <2>3, <2>4, <2>5, <2>6 DEF ThreadsInv
<1>2. CASE call[t].id \notin DOMAIN masterWalletMap /\ Goto(t, "construct")
  <2>0. /\ pc'[t] = "construct" /\ OnlyHolderInside'
        /\ \A u \in Thread : u # t => ~Inside(u)'
        /\ UNCHANGED <<call, held>>
    BY <1>0, <1>2, GotoTypes DEF Label
  <2>1. TypeOK'
    BY <1>0, <1>2, GotoTypes DEF Label, ThreadsInv, TypeOK
  <2>2. CallMatchesLabel' /\ FoundStands'
    BY <1>0, <1>2, <2>0 DEF ThreadsInv, CallMatchesLabel, FoundStands, Inside, Creating, Destroying, Find
  <2>3. StoreInHand'
    <3>1. \A i \in Id, u \in Thread : ~InHand(u, i)
      BY <1>0, OthersOutside DEF Find, InHand, Inside
    <3>2. \A i \in Id : disk'[i] = StoredKey(i)'
      BY <1>0, <3>1 DEF ThreadsInv, StoreInHand, StoredKey
    <3>. QED BY <2>0, <3>2 DEF StoreInHand, Inside
  <2>4. HeldIsRegistered' /\ OneWalletPerKey'
    BY <1>0, <2>0 DEF ThreadsInv, HeldIsRegistered, OneWalletPerKey
  <2>. QED BY <2>0, <2>1, <2>2, <2>3, <2>4 DEF ThreadsInv
<1>. QED BY <1>1, <1>2 DEF Find

\* The new store is the one in hand.
LEMMA ConstructKeeps ==
  ASSUME ThreadsInv, NEW t \in Thread, Construct(t)
  PROVE  ThreadsInv'
<1>0. /\ Inside(t) /\ UNCHANGED masterWalletMap /\ pc[t] = "construct"
      /\ call[t] \in Call /\ call[t].op = "create" /\ call[t].id \notin DOMAIN masterWalletMap
  BY OthersOutside DEF Construct, Inside, ThreadsInv, CallMatchesLabel, Creating, FoundStands
<1>1. /\ pc'[t] = "checkRedundant" /\ OnlyHolderInside'
      /\ \A u \in Thread : u # t => ~Inside(u)'
      /\ UNCHANGED <<call, held>>
  BY <1>0, GotoTypes DEF Label, Construct
<1>2. call[t].id \in Id /\ call[t].key \in Key
  BY <1>0, CallFields
<1>3. disk' \in [Id -> Key \cup {NoKey}] /\ disk' = [disk EXCEPT ![call[t].id] = call[t].key]
  BY <1>2 DEF Construct, ThreadsInv, TypeOK
<1>4. TypeOK'
  BY <1>0, <1>3, GotoTypes DEF Label, Construct, ThreadsInv, TypeOK
<1>5. CallMatchesLabel' /\ FoundStands'
  BY <1>0, <1>1 DEF ThreadsInv, CallMatchesLabel, FoundStands, Inside, Creating, Destroying
<1>6. StoreInHand'
  <2>1. \A i \in Id, u \in Thread : ~InHand(u, i)
    BY <1>0, OthersOutside DEF InHand, Inside
  <2>2. \A i \in Id : i # call[t].id => disk'[i] = StoredKey(i)'
    BY <1>0, <1>2, <1>3, <2>1 DEF ThreadsInv, StoreInHand, StoredKey, TypeOK
  <2>3. InHand(t, call[t].id)'
    BY <1>1 DEF InHand
  <2>4. disk'[call[t].id] = call[t].key
    BY <1>2, <1>3 DEF ThreadsInv, TypeOK
  <2>. QED BY <1>1, <2>2, <2>3, <2>4 DEF StoreInHand, Inside
<1>7. HeldIsRegistered' /\ OneWalletPerKey'
  BY <1>0, <1>1 DEF ThreadsInv, HeldIsRegistered, OneWalletPerKey
<1>. QED BY <1>1, <1>4, <1>5, <1>6, <1>7 DEF ThreadsInv

\* The map is searched for the key.
LEMMA CheckRedundantKeeps ==
  ASSUME ThreadsInv, NEW t \in Thread, CheckRedundant(t)
  PROVE  ThreadsInv'
<1> DEFINE l == IF IsRedundant(call[t].key) THEN "refuse" ELSE "insert"
<1>0. Inside(t) /\ UNCHANGED <<masterWalletMap, disk>> /\ pc[t] = "checkRedundant" /\ Goto(t, l)
  BY DEF CheckRedundant, Inside
<1>1. l \in Label \ {"idle", "enter"} /\ l \in {"refuse", "insert"}
  BY DEF Label
<1>2. /\ pc'[t] = l /\ OnlyHolderInside'
      /\ \A u \in Thread : u # t => ~Inside(u)'
      /\ UNCHANGED <<call, held>>
  BY <1>0, <1>1, GotoTypes
<1>3. TypeOK'
  <2> HIDE DEF l
  <2>. QED BY <1>0, <1>1, GotoTypes DEF ThreadsInv, TypeOK
<1>4. CallMatchesLabel' /\ FoundStands'
  BY <1>0, <1>2 DEF ThreadsInv, CallMatchesLabel, FoundStands, Inside, Creating, Destroying, IsRedundant
<1>5. StoreInHand'
  <2>1. \A i \in Id : disk[i] = StoredKey(i) \/ call[t].id = i
    BY <1>0, OthersOutside DEF ThreadsInv, StoreInHand, InHand, Inside
  <2>2. \A i \in Id : disk'[i] = StoredKey(i)' \/ InHand(t, i)'
    BY <1>0, <1>1, <1>2, <2>1 DEF InHand, StoredKey
  <2>3. disk'[call'[t].id] = call'[t].key /\ pc'[t] # "erase"
    BY <1>0, <1>1, <1>2 DEF ThreadsInv, StoreInHand
  <2>. QED BY <1>2, <2>2, <2>3 DEF StoreInHand, Inside
<1>6. HeldIsRegistered' /\ OneWalletPerKey'
  BY <1>0, <1>2 DEF ThreadsInv, HeldIsRegistered, OneWalletPerKey
<1>. QED BY <1>2, <1>3, <1>4, <1>5, <1>6 DEF ThreadsInv

\* The store in hand goes: nothing in the map had it.
LEMMA RefuseKeeps ==
  ASSUME ThreadsInv, NEW t \in Thread, Refuse(t)
  PROVE  ThreadsInv'
<1>0. /\ Inside(t) /\ UNCHANGED <<masterWalletMap, held>> /\ pc[t] = "refuse" /\ Return(t, Thrown)
      /\ call[t].id \notin DOMAIN masterWalletMap /\ call[t].id \in Id
      /\ disk' = [disk EXCEPT ![call[t].id] = NoKey]
  BY OthersOutside, CallFields DEF Refuse, Inside, ThreadsInv, FoundStands
<1>1. TypeOK'
  <2>1. disk' \in [Id -> Key \cup {NoKey}]
    BY <1>0 DEF ThreadsInv, TypeOK
  <2>2. lock' = NoThread
    BY <1>0, ReturnTypes
  <2>. QED BY <1>0, <2>1, <2>2, ReturnTypes DEF ThreadsInv, TypeOK
<1>2. OnlyHolderInside' /\ CallMatchesLabel' /\ FoundStands' /\ \A u \in Thread : ~Inside(u)'
  BY <1>0, ReturnTypes
<1>3. StoreInHand'
  <2>1. \A i \in Id : disk[i] = StoredKey(i) \/ call[t].id = i
    BY <1>0, OthersOutside DEF ThreadsInv, StoreInHand, InHand, Inside
  <2>2. \A i \in Id : disk'[i] = StoredKey(i)'
    BY <1>0, <2>1 DEF StoredKey, ThreadsInv, TypeOK
  <2>. QED BY <1>2, <2>2 DEF StoreInHand, Inside
<1>4. HeldIsRegistered' /\ OneWalletPerKey'
  BY <1>0 DEF ThreadsInv, HeldIsRegistered, OneWalletPerKey
<1>. QED BY <1>1, <1>2, <1>3, <1>4 DEF ThreadsInv

\* The wallet enters the map: ID and key are still free.
LEMMA InsertKeeps ==
  ASSUME ThreadsInv, NEW t \in Thread, Insert(t)
  PROVE  ThreadsInv'
<1> DEFINE id == call[t].id
           o == NewObject(t)
<1>0. /\ Inside(t) /\ disk' = disk /\ pc[t] = "insert" /\ Return(t, Wallet(call[t].key))
      /\ id \notin DOMAIN masterWalletMap /\ ~IsRedundant(call[t].key)
      /\ disk[id] = call[t].key /\ call[t] \in Call /\ call[t].op = "create"
  BY OthersOutside
     DEF Insert, Inside, ThreadsInv, FoundStands, StoreInHand, CallMatchesLabel, Creating
<1>1. id \in Id /\ call[t].key \in Key
  BY <1>0, CallFields
<1>2. o \in Object /\ o.id = id /\ o.key = call[t].key
  <2>1. calls[t] \in Nat
    BY DEF ThreadsInv, TypeOK
  <2>. QED BY <1>1, <2>1 DEF NewObject, Object
<1>3. /\ DOMAIN masterWalletMap' = DOMAIN masterWalletMap \cup {id}
      /\ masterWalletMap'[id] = o
      /\ \A i \in DOMAIN masterWalletMap : masterWalletMap'[i] = masterWalletMap[i]
      /\ held' = held \cup {o}
  BY <1>0 DEF Insert
<1> HIDE DEF id, o
<1>4. TypeOK'
  <2>1. lock' = NoThread
    BY <1>0, ReturnTypes
  <2>2. /\ DOMAIN masterWalletMap' \subseteq Id
        /\ \A i \in DOMAIN masterWalletMap' :
             masterWalletMap'[i] \in Object /\ masterWalletMap'[i].id = i
    BY <1>1, <1>2, <1>3 DEF ThreadsInv, TypeOK
  <2>. QED BY <1>0, <1>2, <1>3, <2>1, <2>2, ReturnTypes DEF ThreadsInv, TypeOK
<1>5. OnlyHolderInside' /\ CallMatchesLabel' /\ FoundStands' /\ \A u \in Thread : ~Inside(u)'
  BY <1>0, ReturnTypes
<1>6. StoreInHand'
  <2>1. \A i \in Id : disk[i] = StoredKey(i) \/ id = i
    BY <1>0, OthersOutside DEF ThreadsInv, StoreInHand, InHand, Inside, id
  <2>2. \A i \in Id : disk'[i] = StoredKey(i)'
    BY <1>0, <1>2, <1>3, <2>1 DEF StoredKey
  <2>. QED BY <1>5, <2>2 DEF StoreInHand, Inside
<1>7. HeldIsRegistered'
  BY <1>0, <1>2, <1>3 DEF ThreadsInv, HeldIsRegistered
<1>8. OneWalletPerKey'
  BY <1>0, <1>2, <1>3 DEF ThreadsInv, OneWalletPerKey, IsRedundant
<1>. QED BY <1>4, <1>5, <1>6, <1>7, <1>8 DEF ThreadsInv

\* The store of the wallet to be destroyed goes first.
LEMMA RemoveStoreKeeps ==
  ASSUME ThreadsInv, NEW t \in Thread, RemoveStore(t)
  PROVE  ThreadsInv'
<1>0. Inside(t) /\ UNCHANGED <<masterWalletMap, held>> /\ call[t].id \in Id /\ pc[t] = "removeStore"
  BY OthersOutside, CallFields DEF RemoveStore, Inside, Goto
<1>1. \A i \in Id : disk[i] = StoredKey(i)
  BY <1>0, OthersOutside DEF ThreadsInv, StoreInHand, InHand, Inside
<1>2. HeldIsRegistered' /\ OneWalletPerKey'
  BY <1>0 DEF ThreadsInv, HeldIsRegistered, OneWalletPerKey
<1>3. CASE /\ call[t].id \in DOMAIN masterWalletMap
           /\ disk' = [disk EXCEPT ![call[t].id] = NoKey]
           /\ Goto(t, "erase")
  <2>1. /\ pc'[t] = "erase" /\ OnlyHolderInside'
        /\ \A u \in Thread : u # t => ~Inside(u)'
        /\ UNCHANGED call
    BY <1>0, <1>3, GotoTypes DEF Label
  <2>2. TypeOK'
    <3>1. disk' \in [Id -> Key \cup {NoKey}]
      BY <1>0, <1>3 DEF ThreadsInv, TypeOK
    <3>. QED BY <1>0, <1>3, <3>1, GotoTypes DEF Label, ThreadsInv, TypeOK
  <2>3. CallMatchesLabel' /\ FoundStands'
    BY <1>0, <1>3, <2>1 DEF ThreadsInv, CallMatchesLabel, FoundStands, Inside, Creating, Destroying
  <2>4. StoreInHand'
    <3>1. \A i \in Id : disk'[i] = StoredKey(i)' \/ InHand(t, i)'
      BY <1>0, <1>1, <1>3, <2>1 DEF StoredKey, InHand, ThreadsInv, TypeOK
    <3>2. disk'[call'[t].id] = NoKey
      BY <1>0, <1>3, <2>1 DEF ThreadsInv, TypeOK
    <3>. QED BY <2>1, <3>1, <3>2 DEF StoreInHand, Inside
  <2>. QED BY <1>2, <2>1, <2>2, <2>3, <2>4 DEF ThreadsInv
<1>4. CASE disk' = disk /\ Return(t, Done)
  <2>1. OnlyHolderInside' /\ CallMatchesLabel' /\ FoundStands' /\ lock' = NoThread
    BY <1>0, <1>4, ReturnTypes
  <2>2. \A u \in Thread : ~Inside(u)'
    BY <1>0, <1>4, ReturnTypes
  <2>3. TypeOK'
    BY <1>0, <1>4, <2>1, ReturnTypes DEF ThreadsInv, TypeOK
  <2>4. StoreInHand'
    BY <1>0, <1>1, <1>4, <2>2 DEF StoreInHand, StoredKey, Inside
  <2>. QED BY <1>2, <2>1, <2>3, <2>4 DEF ThreadsInv
<1>. QED BY <1>3, <1>4 DEF RemoveStore

\* The wallet leaves the map.
LEMMA EraseKeeps ==
  ASSUME ThreadsInv, NEW t \in Thread, Erase(t)
  PROVE  ThreadsInv'
<1> DEFINE id == call[t].id
<1>0. /\ Inside(t) /\ disk' = disk /\ pc[t] = "erase" /\ Return(t, Done)
      /\ id \in DOMAIN masterWalletMap /\ disk[id] = NoKey
      /\ held' = held \ {masterWalletMap[id]}
      /\ DOMAIN masterWalletMap' = DOMAIN masterWalletMap \ {id}
      /\ \A i \in DOMAIN masterWalletMap \ {id} : masterWalletMap'[i] = masterWalletMap[i]
  BY DEF Erase, Inside, ThreadsInv, FoundStands, StoreInHand
<1> HIDE DEF id
<1>1. OnlyHolderInside' /\ CallMatchesLabel' /\ FoundStands' /\ lock' = NoThread
  BY <1>0, ReturnTypes
<1>2. \A u \in Thread : ~Inside(u)'
  BY <1>0, ReturnTypes
<1>3. TypeOK'
  BY <1>0, <1>1, ReturnTypes DEF ThreadsInv, TypeOK
<1>4. StoreInHand'
  <2>1. \A i \in Id : disk[i] = StoredKey(i) \/ id = i
    BY <1>0, OthersOutside DEF ThreadsInv, StoreInHand, InHand, Inside, id
  <2>2. \A i \in Id : disk'[i] = StoredKey(i)'
    BY <1>0, <2>1 DEF StoredKey
  <2>. QED BY <1>2, <2>2 DEF StoreInHand, Inside
<1>5. HeldIsRegistered' /\ OneWalletPerKey'
  BY <1>0 DEF ThreadsInv, HeldIsRegistered, OneWalletPerKey
<1>. QED BY <1>1, <1>3, <1>4, <1>5 DEF ThreadsInv

\* ThreadsInv is inductive when every create takes the mutex.
LEMMA NextThreads ==
  ASSUME Unlocked = {}, ThreadsInv, [Next]_vars
  PROVE  ThreadsInv'
<1>1. ASSUME NEW t \in Thread, NEW c \in Call, Invoke(t, c) PROVE ThreadsInv'
  BY <1>1, InvokeKeeps
<1>2. ASSUME NEW t \in Thread, Step(t) PROVE ThreadsInv'
  BY <1>2, EnterKeeps, FindKeeps, ConstructKeeps, CheckRedundantKeeps, RefuseKeeps, InsertKeeps,
     RemoveStoreKeeps, EraseKeeps DEF Step
<1>3. CASE UNCHANGED vars
  BY <1>3 DEF vars, ThreadsInv, TypeOK, OnlyHolderInside, CallMatchesLabel, FoundStands, StoreInHand,
     StoredKey, InHand, HeldIsRegistered, OneWalletPerKey, Inside, Creating, Destroying, IsRedundant
<1>. QED BY <1>1, <1>2, <1>3 DEF Next

\* ThreadsInv holds in every reachable state.
LEMMA ThreadsInvariant ==
  ASSUME Unlocked = {}
  PROVE  Safety => []ThreadsInv
<1>1. Init => ThreadsInv
  BY InitThreads
<1>2. ThreadsInv /\ [Next]_vars => ThreadsInv'
  BY NextThreads
<1>. QED BY <1>1, <1>2, PTL DEF Safety

\* What the invariant says of a state between the steps of the threads.
LEMMA ThreadsConsistent ==
  ASSUME ThreadsInv
  PROVE  HeldIsRegistered /\ RegisteredIsStored /\ OneWalletPerKey
<1>1. ASSUME \A t \in Thread : pc[t] \in {"idle", "enter"}
      PROVE  \A i \in Id : disk[i] = StoredKey(i)
  BY <1>1 DEF ThreadsInv, StoreInHand, InHand
<1>. QED BY <1>1 DEF ThreadsInv, RegisteredIsStored, StoredKey

\* When every call takes the mutex, a wallet object a caller was handed stays the
\* one in the map until it is destroyed, for any number of threads and calls.
THEOREM HandedOutIsRegistered ==
  ASSUME Unlocked = {}
  PROVE  Safety => []HeldIsRegistered
BY ThreadsConsistent, ThreadsInvariant, PTL

\* Whenever no call is inside the manager, the stores on the disk are exactly those
\* of the wallets in the map: RemoveLocalStore of a refused create, or of a
\* destroy, never removes the store of another thread's wallet.
THEOREM ConsistentUnderLock ==
  ASSUME Unlocked = {}
  PROVE  Safety => []RegisteredIsStored
BY ThreadsConsistent, ThreadsInvariant, PTL

\* No two wallets ever hold the same key: what checkRedundant found is still so
\* when the object is put into the map.
THEOREM KeysAreUnique ==
  ASSUME Unlocked = {}
  PROVE  Safety => []OneWalletPerKey
BY ThreadsConsistent, ThreadsInvariant, PTL

(***************************************************************************)
(* The refinement: a call takes effect in the step that returns from it.   *)
(***************************************************************************)
Reg == [i \in DOMAIN masterWalletMap |-> masterWalletMap[i].key]

\* A step inside a call that neither returns nor touches the map is invisible.
LEMMA InvisibleStep ==
  ASSUME UNCHANGED <<masterWalletMap, call, result, calls>>
  PROVE  UNCHANGED Registry!vars
  BY DEF Registry!vars

\* The steps that return complete the call as WalletRegistry does.
LEMMA ReturnCompletes ==
  ASSUME ThreadsInv, NEW t \in Thread, NEW r, Inside(t), Return(t, r)
  PROVE  /\ call[t] \in Call /\ call[t] # Registry!Idle
         /\ call' = [call EXCEPT ![t] = Registry!Idle]
         /\ result' = [result EXCEPT ![t] = r]
         /\ calls' = calls
  BY OthersOutside, CallFields DEF Return, Idle, Registry!Idle

\* Every step inside a call completes it, or changes nothing WalletRegistry sees.
LEMMA StepRefines ==
  ASSUME ThreadsInv, NEW t \in Thread, Step(t)
  PROVE  Registry!Complete(t) \/ UNCHANGED Registry!vars
<1> USE DEF Registry!Wallet, Registry!Thrown, Registry!Done, Wallet, Thrown, Done
<1>1. CASE Enter(t) \/ Construct(t) \/ CheckRedundant(t)
  BY <1>1, InvisibleStep DEF Enter, Construct, CheckRedundant, Goto
<1>2. CASE Find(t)
  <2>0. Inside(t) /\ call[t].op = "create" /\ UNCHANGED masterWalletMap
    BY <1>2 DEF Find, Inside, ThreadsInv, CallMatchesLabel, Creating
  <2>1. CASE /\ call[t].id \in DOMAIN masterWalletMap
             /\ Return(t, Wallet(masterWalletMap[call[t].id].key))
    BY <2>0, <2>1, ReturnCompletes DEF Registry!Complete
  <2>2. CASE Goto(t, "construct")
    BY <2>0, <2>2, InvisibleStep DEF Goto
  <2>. QED BY <1>2, <2>1, <2>2 DEF Find
<1>3. CASE Refuse(t)
  <2>0. /\ Inside(t) /\ call[t].op = "create" /\ UNCHANGED masterWalletMap /\ Return(t, Thrown)
        /\ call[t].id \notin DOMAIN masterWalletMap /\ IsRedundant(call[t].key)
    BY <1>3 DEF Refuse, Inside, ThreadsInv, CallMatchesLabel, Creating, FoundStands
  <2>. QED BY <2>0, ReturnCompletes DEF Registry!Complete, IsRedundant
<1>4. CASE Insert(t)
  <2>0. /\ Inside(t) /\ call[t].op = "create" /\ Return(t, Wallet(call[t].key))
        /\ call[t].id \notin DOMAIN masterWalletMap /\ ~IsRedundant(call[t].key)
    BY <1>4 DEF Insert, Inside, ThreadsInv, CallMatchesLabel, Creating, FoundStands
  <2>1. Reg' = [i \in DOMAIN Reg \cup {call[t].id} |-> IF i = call[t].id THEN call[t].key ELSE Reg[i]]
    BY <1>4, <2>0 DEF Insert, Reg, NewObject
  <2>. QED BY <2>0, <2>1, ReturnCompletes DEF Registry!Complete, Registry!Registered, IsRedundant, Reg
<1>5. CASE RemoveStore(t)
  <2>0. Inside(t) /\ call[t].op = "destroy" /\ UNCHANGED masterWalletMap
    BY <1>5 DEF RemoveStore, Inside, ThreadsInv, CallMatchesLabel, Destroying
  <2>1. CASE call[t].id \notin DOMAIN masterWalletMap /\ Return(t, Done)
    <3>1. Reg' = [i \in DOMAIN Reg \ {call[t].id} |-> Reg[i]]
      BY <2>0, <2>1 DEF Reg
    <3>. QED BY <2>0, <2>1, <3>1, ReturnCompletes DEF Registry!Complete, Registry!Without, Reg
  <2>2. CASE Goto(t, "erase")
    BY <2>0, <2>2, InvisibleStep DEF Goto
  <2>. QED BY <1>5, <2>1, <2>2 DEF RemoveStore
<1>6. CASE Erase(t)
  <2>0. Inside(t) /\ call[t].op = "destroy" /\ Return(t, Done)
    BY <1>6 DEF Erase, Inside, ThreadsInv, CallMatchesLabel, Destroying
  <2>1. Reg' = [i \in DOMAIN Reg \ {call[t].id} |-> Reg[i]]
    BY <1>6 DEF Erase, Reg
  <2>. QED BY <2>0, <2>1, ReturnCompletes DEF Registry!Complete, Registry!Without, Reg
<1>. QED BY <1>1, <1>2, <1>3, <1>4, <1>5, <1>6 DEF Step

\* The calls of MasterWalletManager take effect one at a time, each between its start
\* and its return: the safety part of Linearizable, for any number of threads.
THEOREM RegistryImplemented ==
  ASSUME Unlocked = {}
  PROVE  Safety => Registry!Safety
<1>1. Init => Registry!Init
  BY DEF Init, Registry!Init, Idle, Done, Registry!Idle, Registry!Done
<1>2. ThreadsInv /\ [Next]_vars => [Registry!Next]_Registry!vars
  <2> SUFFICES ASSUME ThreadsInv, [Next]_vars PROVE Registry!Next \/ UNCHANGED Registry!vars
    OBVIOUS
  <2>1. ASSUME NEW t \in Thread, NEW c \in Call, Invoke(t, c)
        PROVE  Registry!Next
    <3>1. call[t] = Registry!Idle /\ c \in Registry!Call
      BY <2>1 DEF Invoke, ThreadsInv, TypeOK, Idle, Registry!Idle, Call, Registry!Call
    <3>2. Registry!Invoke(t, c)
      BY <2>1, <3>1 DEF Invoke, Registry!Invoke
    <3>. QED BY <3>1, <3>2 DEF Registry!Next
  <2>2. ASSUME NEW t \in Thread, Step(t)
        PROVE  Registry!Next \/ UNCHANGED Registry!vars
    BY <2>2, StepRefines DEF Registry!Next
  <2>3. CASE UNCHANGED vars
    BY <2>3, InvisibleStep DEF vars
  <2>. QED BY <2>1, <2>2, <2>3 DEF Next
<1>. QED BY <1>1, <1>2, ThreadsInvariant, PTL DEF Safety, Registry!Safety
=============================================================================
