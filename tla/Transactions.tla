---------------------------- MODULE Transactions ----------------------------
(***************************************************************************)
(* A transaction from the Create function of a sub wallet, through the     *)
(* hands of the cosigners, to the raw bytes that the host publishes.  The  *)
(* host passes it from call to call as JSON (EncodeTx); every call decodes *)
(* the bytes (DecodeTx, Transaction::Deserialize), works on the object and *)
(* encodes it again.  What is signed is the serialisation of the decoded   *)
(* object, so everything a transaction can contain has to survive.         *)
(*                                                                         *)
(* Streams are those of Layout.  Amounts are integers of any size and sign *)
(* in the program and 64-bit words in the bytes.  The asset, the output    *)
(* lock and the lock time are always the same and are left out.            *)
(***************************************************************************)
EXTENDS PayloadClasses, Sums, SequencesExt

CONSTANTS
  Utxos,          \* the unspent outputs the host may name: [txo, address, amount]
  Owned,          \* the addresses whose code the sub account finds
  Address0,       \* its first address
  Amounts,        \* the amounts the host may pass
  Fees,           \* the fees the host may pass
  MaxInputs,      \* how many inputs it passes
  Signers,        \* the cosigners; all of them have to sign
  Word,           \* 2^64
  CrossChainFee,  \* DEPOSIT_OR_WITHDRAW_FEE
  DepositMin      \* DEPOSIT_MIN_ELA

ASSUME WordAssumption == Word \in Nat \ {0}
ASSUME UtxosAssumption == \A u \in Utxos : u.txo \in Int /\ u.amount \in Int
ASSUME AddressAssumption == Address0 \in Owned /\ MaxInputs \in Nat
ASSUME AmountsAssumption == Amounts \subseteq Int /\ Fees \subseteq Int /\ CrossChainFee \in Int

VARIABLES
  made,           \* the transaction as it was created, and the call
  encoded,        \* the JSON the host has: chain, bytes, fee
  raw,            \* the raw transaction the host has
  outcome         \* of the last call

vars == <<made, encoded, raw, outcome>>

None == <<>>
Null == "null"
V09  == 9

Chains == {"ELA", "IDChain"}

Types ==
  [coinBase |-> 0, registerAsset |-> 1, transferAsset |-> 2, record |-> 3, sideChainPow |-> 5,
   rechargeToSideChain |-> 6, withdrawFromSideChain |-> 7, transferCrossChainAsset |-> 8,
   registerProducer |-> 9, cancelProducer |-> 10, updateProducer |-> 11, returnDepositCoin |-> 12,
   nextTurnDPOSInfo |-> 20, registerCR |-> 33, unregisterCR |-> 34, updateCR |-> 35,
   returnCRDepositCoin |-> 36, crcProposal |-> 37, crcProposalReview |-> 38,
   crcProposalTracking |-> 39, crcAppropriation |-> 40, crcProposalWithdraw |-> 41,
   crcProposalRealWithdraw |-> 42, crcAssetsRectify |-> 43, crCouncilMemberClaimNode |-> 49,
   DposV2ClaimReward |-> 96, Stake |-> 98, Voting |-> 99, CancelVotes |-> 100, Unstake |-> 101]

\* The types of the ID chain.
IDTypes == [registerIdentification |-> 9, didTransaction |-> 10]

OutputTypes == [Default |-> 0, VoteOutput |-> 1, CrossChain |-> 3, Stake |-> 7]

-----------------------------------------------------------------------------
(* Outputs *)

\* Mutant: the sign is kept.
GetUint64Signed(x) == IF x < 0 THEN x ELSE x % Word

\* getHexBytes forgets the sign, and eight bytes are taken: the amount in the
\* bytes, and the fee in the JSON.
GetUint64(x) == (IF x < 0 THEN -x ELSE x) % Word

\* A payload of a class, each member with a value of its own.
NewPayload(c, v) ==
  [class |-> c,
   val   |-> [m \in MembersOf(Functions(c, v).Serialize) |->
                IF c \in ProposalTypes /\ m = "type" THEN c ELSE m]]

PayloadBytes(p, v) == Written(Functions(p.class, v).Serialize, p.val)

\* An output to be made, with a payload of a class, and one without.
Output(amount, address, type, class) ==
  [amount |-> amount, address |-> address, type |-> type, class |-> class]

Payment(amount, address) == Output(amount, address, OutputTypes.Default, "PayloadDefault")

\* The object.
TransactionOutput(o) ==
  [amount |-> o.amount, address |-> o.address, type |-> o.type, payload |-> NewPayload(o.class, 0)]

\* The class of the payload that an output type has, if the function knows it.
GeneratePayload(type) ==
  CASE type = OutputTypes.Default    -> "PayloadDefault"
    [] type = OutputTypes.VoteOutput -> "PayloadVote"
    [] type = OutputTypes.CrossChain -> "PayloadCrossChain"
    [] OTHER                         -> Null

OutputSerialize(o, version) ==
  << <<"Uint64", GetUint64(o.amount)>>, <<"Hash168", o.address>> >>
  \o When(version >= V09, << <<"Uint8", o.type>> >> \o PayloadBytes(o.payload, 0))

\* What a Deserialize with this layout makes of the head of a stream, and the rest.
\* Reading what was written with another layout is taken to fail.  The type of a
\* CRCProposal is the first thing in it.
ReadPayload(class, layout, s) ==
  IF ~Fits(layout, SubSeq(s, 1, Len(layout))) THEN [result |-> "refused"]
  ELSE [result |-> "ok",
        payload |-> [class |-> IF class = "CRCProposal" THEN s[1][2] ELSE class,
                     val |-> ReadBack(layout, s, MembersOf(layout))],
        rest |-> SubSeq(s, Len(layout) + 1, Len(s))]

\* The payload of an output.  That of a type that GeneratePayload does not know is a
\* null pointer, which is called all the same.
OutputPayload(class, s) ==
  IF class = Null THEN [result |-> "crashed"]
  ELSE ReadPayload(class, Functions(class, 0).Deserialize, s)

\* The output that is read, when its payload is.
OutputOf(s, type, p) ==
  IF p.result # "ok" THEN [result |-> p.result]
  ELSE IF p.rest # <<>> THEN [result |-> "refused"]
  ELSE [result |-> "ok",
        output |-> [amount |-> s[1][2], address |-> s[2][2], type |-> type, payload |-> p.payload]]

\* Mutant: the type of the output is read, and not kept.
OutputDeserializeTypeLost(s, version) ==
  LET head == IF version < V09 THEN 2 ELSE 3
      type == IF version < V09 THEN OutputTypes.Default ELSE s[3][2]
  IN  IF Len(s) < head THEN [result |-> "refused"]
      ELSE OutputOf(s, OutputTypes.Default, OutputPayload(GeneratePayload(type), SubSeq(s, head + 1, Len(s))))

\* TransactionOutput::Deserialize.  Only the later versions have a type and a payload.
OutputDeserialize(s, version) ==
  LET head == IF version < V09 THEN 2 ELSE 3
      type == IF version < V09 THEN OutputTypes.Default ELSE s[3][2]
  IN  IF Len(s) < head THEN [result |-> "refused"]
      ELSE OutputOf(s, type, OutputPayload(GeneratePayload(type), SubSeq(s, head + 1, Len(s))))

-----------------------------------------------------------------------------
(* Transactions *)

SerializeUnsigned(tx) ==
  When(tx.version >= V09, << <<"Uint8", tx.version>> >>)
  \o << <<"Uint8", tx.type>>, <<"Uint8", tx.payloadVersion>> >>
  \o PayloadBytes(tx.payload, tx.payloadVersion)
  \o << <<"Attributes", tx.attributes>>, <<"Inputs", tx.inputs>>,
        <<"Outputs", [i \in DOMAIN tx.outputs |-> OutputSerialize(tx.outputs[i], tx.version)]>> >>

Serialize(tx) == SerializeUnsigned(tx) \o << <<"Programs", tx.programs>> >>

\* The classes of the payloads that Transaction::InitPayload and, for the side
\* chains, IDTransaction::InitPayload make for a type.  The staking types and
\* crcAppropriation have none.
Payloads ==
  [coinBase |-> "CoinBase", registerAsset |-> "RegisterAsset", transferAsset |-> "TransferAsset",
   record |-> "Record", sideChainPow |-> "SideChainPow", rechargeToSideChain |-> "RechargeToSideChain",
   withdrawFromSideChain |-> "WithdrawFromSideChain",
   transferCrossChainAsset |-> "TransferCrossChainAsset", registerProducer |-> "ProducerInfo",
   updateProducer |-> "ProducerInfo", cancelProducer |-> "CancelProducer",
   returnDepositCoin |-> "ReturnDepositCoin", nextTurnDPOSInfo |-> "NextTurnDPoSInfo",
   registerCR |-> "CRInfo", updateCR |-> "CRInfo", unregisterCR |-> "UnregisterCR",
   returnCRDepositCoin |-> "ReturnDepositCoin", crcProposal |-> "CRCProposal",
   crcProposalReview |-> "CRCProposalReview", crcProposalTracking |-> "CRCProposalTracking",
   crcProposalWithdraw |-> "CRCProposalWithdraw", crcProposalRealWithdraw |-> "CRCProposalRealWithdraw",
   crcAssetsRectify |-> "CRCAssetsRectify", crCouncilMemberClaimNode |-> "CRCouncilMemberClaimNode"]

IDPayloads == [registerIdentification |-> "RegisterIdentification", didTransaction |-> "DIDInfo"]

\* The class that a table of classes has for a type, else another one.
Lookup(classes, codes, type, other) ==
  LET names == {n \in DOMAIN classes : codes[n] = type}
  IN  IF names = {} THEN other ELSE classes[CHOOSE n \in names : TRUE]

\* Mutant: the claim node payload was forgotten.
InitPayloadNoClaimNode(chain, type) ==
  IF type = Types.crCouncilMemberClaimNode THEN Null
  ELSE Lookup(IF chain = "ELA" THEN <<>> ELSE IDPayloads, IDTypes, type, Lookup(Payloads, Types, type, Null))

\* Mutant: the type of a stake was added, its output type was not.
InitPayloadStake(chain, type) ==
  IF type = Types.Stake THEN "Stake"
  ELSE Lookup(IF chain = "ELA" THEN <<>> ELSE IDPayloads, IDTypes, type, Lookup(Payloads, Types, type, Null))

InitPayload(chain, type) ==
  Lookup(IF chain = "ELA" THEN <<>> ELSE IDPayloads, IDTypes, type, Lookup(Payloads, Types, type, Null))

\* A first byte of at least 9 is a version, on the main chain; on the side chains,
\* whose type numbers begin with 9, it never is.
DeserializeType(chain, s) ==
  IF chain = "ELA" /\ s[1][2] >= V09
  THEN [version |-> s[1][2], type |-> s[2][2], rest |-> SubSeq(s, 3, Len(s))]
  ELSE [version |-> 0, type |-> s[1][2], rest |-> SubSeq(s, 2, Len(s))]

\* The payload of a transaction; a CRCProposal reads its type first.
TransactionPayload(class, version, s) ==
  LET typed == class = "CRCProposal"
  IN  IF class = Null \/ (typed /\ (s = <<>> \/ s[1][1] # "Uint16")) THEN [result |-> "refused"]
      ELSE ReadPayload(class, Functions(IF typed THEN s[1][2] ELSE class, version).Deserialize, s)

\* What comes after the payload, when the outputs are read.
DeserializeRest(h, version, p, outputs) ==
  LET read == {outputs[i].result : i \in DOMAIN outputs}
  IN  IF "crashed" \in read THEN [result |-> "crashed"]
      ELSE IF "refused" \in read THEN [result |-> "refused"]
      ELSE [result |-> "ok",
            tx |-> [version |-> h.version, type |-> h.type, payloadVersion |-> version,
                    payload |-> p.payload, attributes |-> p.rest[1][2], inputs |-> p.rest[2][2],
                    outputs |-> [i \in DOMAIN outputs |-> outputs[i].output],
                    programs |-> p.rest[4][2]]]

\* What comes after the type and the version, when the payload is read.
DeserializePayload(h, version, p) ==
  IF p.result # "ok" THEN [result |-> p.result]
  ELSE IF [i \in DOMAIN p.rest |-> p.rest[i][1]] # <<"Attributes", "Inputs", "Outputs", "Programs">>
  THEN [result |-> "refused"]
  ELSE DeserializeRest(h, version, p,
         [i \in DOMAIN p.rest[3][2] |-> OutputDeserialize(p.rest[3][2][i], h.version)])

Deserialize(chain, s) ==
  LET h       == DeserializeType(chain, s)
      version == h.rest[1][2]
  IN  DeserializePayload(h, version,
        TransactionPayload(InitPayload(chain, h.type), version, SubSeq(h.rest, 2, Len(h.rest))))

\* A program verifies when all of Signers have signed these bytes.
IsSigned(tx) ==
  \/ tx.type \in {Types.rechargeToSideChain, Types.coinBase}
  \/ /\ tx.programs # <<>>
     /\ \A i \in DOMAIN tx.programs :
          tx.programs[i].parameter = {<<k, SerializeUnsigned(tx)>> : k \in Signers}

EncodeTx(chain, tx, fee) == [ChainID |-> chain, Data |-> Serialize(tx), Fee |-> fee]

DecodeTx(chain, e) ==
  IF e.ChainID # chain THEN [result |-> "refused"] ELSE Deserialize(chain, e.Data)

-----------------------------------------------------------------------------
(* The Create functions.  For the arguments of a call, the set of things   *)
(* that they may ask Wallet::CreateTransaction for: a function that refuses *)
(* the arguments asks for nothing.  The versions of a proposal, a review   *)
(* and a tracking payload depend on the document (see Proposals).          *)

Plan(type, class, version, outputs, back) ==
  [type |-> type, class |-> class, version |-> version, outputs |-> outputs, back |-> back]

\* The address of the first input, taken through the end iterator if there is none.
First(utxos) == IF utxos = <<>> THEN Null ELSE utxos[1].address

CreateTransaction(a) ==
  {Plan(Types.transferAsset, "TransferAsset", 0, [i \in 1..n |-> Payment(a.amount, "other")], FALSE) :
     n \in IF a.amount < 0 THEN {0} ELSE 0..2}

CreateDepositTransaction(a) ==
  IF a.amount < 0 THEN {}
  ELSE {Plan(Types.transferCrossChainAsset, "TransferCrossChainAsset", 0,
             <<Payment(a.amount + CrossChainFee, "lock")>>, FALSE),
        Plan(Types.transferCrossChainAsset, "TransferCrossChainAsset", 1,
             <<Output(a.amount + CrossChainFee, "lock", OutputTypes.CrossChain, "PayloadCrossChain")>>, FALSE)}

CreateRegisterProducerTransaction(a) ==
  IF a.amount < DepositMin THEN {}
  ELSE {Plan(Types.registerProducer, "ProducerInfo", 0, <<Payment(a.amount, "deposit")>>, FALSE)}

CreateRegisterCRTransaction(a) ==
  IF a.amount < DepositMin THEN {}
  ELSE {Plan(Types.registerCR, "CRInfo", 1, <<Payment(a.amount, "deposit")>>, FALSE)}

CreateRetrieveDepositTransaction(a) ==
  {Plan(Types.returnDepositCoin, "ReturnDepositCoin", 0, <<Payment(a.amount - a.fee, Address0)>>, TRUE)}

CreateRetrieveCRDepositTransaction(a) ==
  {Plan(Types.returnCRDepositCoin, "ReturnDepositCoin", 0,
        <<Payment(a.amount - a.fee, First(a.utxos))>>, TRUE)}

\* The amount is that of the votes.
CreateVoteTransaction(a) ==
  IF a.amount < 0 THEN {}
  ELSE {Plan(Types.transferAsset, "TransferAsset", 0,
             <<Output(a.amount, First(a.utxos), OutputTypes.VoteOutput, "PayloadVote")>>, TRUE)}

CreateStakeTransaction(a) ==
  {Plan(Types.Stake, "Stake", 0,
        <<Output(a.amount, "lock", OutputTypes.Stake, "PayloadStake")>>, FALSE)}

\* The eight kinds of proposals.
CreateProposalTransactions(a) ==
  {Plan(Types.crcProposal, t, v, <<>>, FALSE) : t \in ProposalTypes \ UpgradeTypes, v \in 0..1}

\* The other payloads of the main chain, without an output of their own.  An
\* Unstake has the type CancelVotes.
CreateUpdateProducerTransaction(a) == {Plan(Types.updateProducer, "ProducerInfo", 0, <<>>, FALSE)}
CreateCancelProducerTransaction(a) == {Plan(Types.cancelProducer, "CancelProducer", 0, <<>>, FALSE)}
CreateUpdateCRTransaction(a)       == {Plan(Types.updateCR, "CRInfo", 1, <<>>, FALSE)}
CreateUnregisterCRTransaction(a)   == {Plan(Types.unregisterCR, "UnregisterCR", 0, <<>>, FALSE)}
CreateCRCouncilMemberClaimNodeTransaction(a) ==
  {Plan(Types.crCouncilMemberClaimNode, "CRCouncilMemberClaimNode", 0, <<>>, FALSE)}
CreateProposalReviewTransaction(a) ==
  {Plan(Types.crcProposalReview, "CRCProposalReview", v, <<>>, FALSE) : v \in 0..1}
CreateProposalTrackingTransaction(a) ==
  {Plan(Types.crcProposalTracking, "CRCProposalTracking", v, <<>>, FALSE) : v \in 0..1}
CreateProposalWithdrawTransaction(a) ==
  {Plan(Types.crcProposalWithdraw, "CRCProposalWithdraw", 1, <<>>, FALSE)}
CreateDPoSV2VoteTransaction(a)        == {Plan(Types.Voting, "Voting", 0, <<>>, FALSE)}
CreateDPoSV2ClaimRewardTransaction(a) == {Plan(Types.DposV2ClaimReward, "DPoSV2ClaimReward", 0, <<>>, FALSE)}
CreateCancelVotesTransaction(a)       == {Plan(Types.CancelVotes, "CancelVotes", 0, <<>>, FALSE)}
CreateUnstakeTransaction(a)           == {Plan(Types.CancelVotes, "Unstake", 0, <<>>, FALSE)}

\* The side chains.
CreateWithdrawTransaction(a) ==
  IF a.amount < 0 THEN {}
  ELSE {Plan(Types.transferCrossChainAsset, "TransferCrossChainAsset", 0,
             <<Payment(a.amount + CrossChainFee, "destroy")>>, FALSE)}

\* An output for the DID, or one for each of its controllers.
CreateIDTransaction(a) ==
  IF a.fee < 0 THEN {}
  ELSE {Plan(IDTypes.didTransaction, "DIDInfo", 0, [i \in 1..n |-> Payment(0, "did")], FALSE) : n \in 1..2}

\* What the sub wallet of a chain may ask for.
Plans(chain, a) ==
  CreateTransaction(a) \cup
  CASE chain = "ELA" ->
         UNION {CreateDepositTransaction(a), CreateRegisterProducerTransaction(a),
                CreateRegisterCRTransaction(a), CreateRetrieveDepositTransaction(a),
                CreateRetrieveCRDepositTransaction(a), CreateVoteTransaction(a),
                CreateStakeTransaction(a), CreateProposalTransactions(a),
                CreateUpdateProducerTransaction(a), CreateCancelProducerTransaction(a),
                CreateUpdateCRTransaction(a), CreateUnregisterCRTransaction(a),
                CreateCRCouncilMemberClaimNodeTransaction(a), CreateProposalReviewTransaction(a),
                CreateProposalTrackingTransaction(a), CreateProposalWithdrawTransaction(a),
                CreateDPoSV2VoteTransaction(a), CreateDPoSV2ClaimRewardTransaction(a),
                CreateCancelVotesTransaction(a), CreateUnstakeTransaction(a)}
    [] chain = "IDChain" -> CreateWithdrawTransaction(a) \cup CreateIDTransaction(a)

-----------------------------------------------------------------------------
(* Wallet::CreateTransaction *)

\* Mutant: the inputs are kept as they come.
UTXOFromJsonUnsorted(inputs) == inputs

\* The set of the inputs, ordered by the transaction output they name.  An entry
\* for one that is in the set already is dropped, whatever its amount.
UTXOFromJson(inputs) ==
  LET entry(t) == inputs[CHOOSE i \in DOMAIN inputs :
                           inputs[i].txo = t /\ \A j \in 1..(i - 1) : inputs[j].txo # t]
      txos == Ordered({inputs[i].txo : i \in DOMAIN inputs})
  IN  [n \in DOMAIN txos |-> entry(txos[n])]

\* An input without a code for its address is refused.
CodesFound(utxos) == \A i \in DOMAIN utxos : utxos[i].address \in Owned

\* One program for each code, in the order of the inputs.
UniquePrograms(utxos) ==
  LET firsts == {i \in DOMAIN utxos : \A j \in 1..(i - 1) : utxos[j].address # utxos[i].address}
      order  == Ordered(firsts)
  IN  [n \in DOMAIN order |-> [code |-> utxos[order[n]].address, parameter |-> {}]]

TotalInput(utxos) == Total([i \in DOMAIN utxos |-> utxos[i].amount])
TotalOutput(outputs) == Total([i \in DOMAIN outputs |-> outputs[i].amount])

\* What is left goes back to the address of the first input, or to the first
\* address of the sub account.
Change(utxos, plan, fee) ==
  LET rest == TotalInput(utxos) - TotalOutput(plan.outputs) - fee
  IN  IF rest \in Nat \ {0}
      THEN <<Payment(rest, IF plan.back THEN First(utxos) ELSE Address0)>>
      ELSE <<>>

\* The object, a payload version that the Create function sets afterwards included.
NewTransaction(chain, utxos, plan, fee, memo) ==
  [version |-> IF chain = "ELA" THEN V09 ELSE 0, type |-> plan.type, payloadVersion |-> plan.version,
   payload |-> NewPayload(plan.class, plan.version),
   attributes |-> IF memo THEN <<"memo", "nonce">> ELSE <<"nonce">>,
   inputs |-> [i \in DOMAIN utxos |-> utxos[i].txo],
   outputs |-> LET all == plan.outputs \o Change(utxos, plan, fee)
               IN  [i \in DOMAIN all |-> TransactionOutput(all[i])],
   programs |-> UniquePrograms(utxos)]

Result(utxos, plan, tx, fee) ==
  IF \E i \in DOMAIN plan.outputs : plan.outputs[i].address = Null THEN "crashed"
  ELSE IF ~CodesFound(utxos) \/ TotalInput(utxos) < TotalOutput(plan.outputs) + fee THEN "refused"
  ELSE IF \E i \in DOMAIN tx.outputs : tx.outputs[i].address = Null THEN "crashed"
  ELSE IF tx.outputs = <<>> THEN "refused"
  ELSE "created"

-----------------------------------------------------------------------------
Init == made = None /\ encoded = None /\ raw = None /\ outcome = "none"

\* The transaction that was built is encoded, or refused.
Built(chain, inputs, utxos, plan, fee, tx) ==
  LET r == Result(utxos, plan, tx, fee)
  IN  /\ outcome' = r
      /\ \/ /\ r = "created"
            /\ made' = [chain |-> chain, inputs |-> inputs, requested |-> plan.outputs, fee |-> fee, tx |-> tx]
            /\ encoded' = EncodeTx(chain, tx, GetUint64(fee))
         \/ r # "created" /\ UNCHANGED <<made, encoded>>
      /\ UNCHANGED raw

\* A call of a Create function with the inputs, the amount and the fee given.
Create(chain, inputs, amount, fee, memo) ==
  LET utxos == UTXOFromJson(inputs)
      plans == Plans(chain, [utxos |-> utxos, amount |-> amount, fee |-> fee])
  IN  /\ made = None /\ outcome = "none"
      /\ \/ /\ (\E i \in DOMAIN inputs : inputs[i].amount < 0) \/ plans = {}
            /\ outcome' = "refused" /\ UNCHANGED <<made, encoded, raw>>
         \/ /\ \A i \in DOMAIN inputs : inputs[i].amount >= 0
            /\ \E plan \in plans :
                 Built(chain, inputs, utxos, plan, fee, NewTransaction(chain, utxos, plan, fee, memo))

\* The programs with one more signature in each.
WithSignature(programs, sig) ==
  [i \in DOMAIN programs |-> [programs[i] EXCEPT !.parameter = @ \cup {sig}]]

\* The decoded transaction is signed and encoded again, unless all have signed it,
\* there is nothing to sign, or this cosigner has.
Signed(chain, k, tx, md) ==
  \/ /\ \/ IsSigned(tx) \/ tx.programs = <<>>
        \/ \E i \in DOMAIN tx.programs : <<k, md>> \in tx.programs[i].parameter
     /\ outcome' = "notSigned" /\ UNCHANGED encoded
  \/ /\ ~IsSigned(tx) /\ tx.programs # <<>>
     /\ \A i \in DOMAIN tx.programs : <<k, md>> \notin tx.programs[i].parameter
     /\ outcome' = "signed"
     /\ encoded' = EncodeTx(chain, [tx EXCEPT !.programs = WithSignature(@, <<k, md>>)], encoded.Fee)

\* A cosigner decodes the transaction, signs every program and encodes it again.
SignTransaction(chain, k) ==
  /\ encoded # None /\ raw = None
  /\ \E d \in {DecodeTx(chain, encoded)} :
       \/ d.result # "ok" /\ outcome' = d.result /\ UNCHANGED encoded
       \/ d.result = "ok" /\ Signed(chain, k, d.tx, SerializeUnsigned(d.tx))
  /\ UNCHANGED <<made, raw>>

\* The bytes for the network, whether or not everyone has signed.
ConvertToRawTransaction(chain) ==
  /\ encoded # None /\ raw = None
  /\ \E d \in {DecodeTx(chain, encoded)} :
       \/ d.result # "ok" /\ outcome' = d.result /\ UNCHANGED raw
       \/ d.result = "ok" /\ outcome' = "converted" /\ raw' = Serialize(d.tx)
  /\ UNCHANGED <<made, encoded>>

Next ==
  \/ \E chain \in Chains, inputs \in SeqOf(Utxos, MaxInputs), amount \in Amounts, fee \in Fees, memo \in BOOLEAN :
       Create(chain, inputs, amount, fee, memo)
  \/ \E chain \in Chains, k \in Signers : SignTransaction(chain, k)
  \/ \E chain \in Chains : ConvertToRawTransaction(chain)

Spec == Init /\ [][Next]_vars

-----------------------------------------------------------------------------
StakingTypes == {Types.DposV2ClaimReward, Types.Stake, Types.Voting, Types.CancelVotes, Types.Unstake}

TypeOK ==
  /\ outcome \in {"none", "created", "refused", "crashed", "signed", "notSigned", "converted"}
  /\ (made = None) <=> (encoded = None)
  /\ encoded # None =>
       /\ encoded.ChainID = made.chain /\ encoded.Fee \in 0..(Word - 1)
       /\ \A i \in DOMAIN made.tx.outputs : made.tx.outputs[i].amount \in Int
       /\ Len(made.tx.programs) <= Len(made.tx.inputs) /\ Len(made.tx.inputs) <= MaxInputs

\* The bytes of an encoded transaction without the programs, and the signatures.
UnsignedBytes(data) == SubSeq(data, 1, Len(data) - 1)
Signatures(data) ==
  LET programs == data[Len(data)][2] IN UNION {programs[i].parameter : i \in DOMAIN programs}

\* Whatever its type, payload version and outputs, a transaction that is decoded and
\* encoded by cosigner after cosigner keeps the bytes it was created with, every
\* signature in it is over these bytes, and so are the raw bytes that are published
\* (Transaction::Serialize, Deserialize and GetShaData, SubAccount::SignTransaction).
SignedBytesAgree ==
  \A data \in {e.Data : e \in {encoded} \ {None}} \cup ({raw} \ {None}) :
    \A bytes \in {UnsignedBytes(data)} \cup {sig[2] : sig \in Signatures(data)} :
      bytes = SerializeUnsigned(made.tx)

\* A transaction that a Create function made can be decoded by the sub wallet of its
\* chain, and so be signed and published, unless it is a staking transaction: these
\* are refused for ever, and with them an Unstake, whose payload is under the type
\* of another one (Transaction::InitPayload and the Create functions of
\* MainchainSubWallet).
DecodableUnlessStaking ==
  encoded # None =>
    (DecodeTx(made.chain, encoded).result = "ok" <=> ~(made.chain = "ELA" /\ made.tx.type \in StakingTypes))

\* No call on an encoded transaction goes through a null pointer: an output whose
\* type has no payload class is never read, since the type of its transaction has
\* none either and is refused before the outputs are reached.  A Create function
\* may crash, when it wants the address of the first of no inputs
\* (TransactionOutput::Deserialize, Transaction::Deserialize).
DecodingNeverCrashes == outcome = "crashed" => made = None

\* Nothing is lost between the integers that are computed with and the 64-bit words
\* that are published: each transaction output is spent once, the amounts in the
\* bytes and the fee in the JSON add up to the inputs, and what is not paid out is
\* paid to an address of the wallet, provided that the fee and the outputs asked for
\* are not negative and the inputs are below 2^64 (Wallet::CreateTransaction,
\* TransactionOutput::Serialize).
WireBalanced ==
  made # None =>
    LET bytes   == UnsignedBytes(encoded.Data)
        outputs == bytes[Len(bytes)][2]
        spent   == bytes[Len(bytes) - 1][2]
        amount(t) == made.inputs[CHOOSE i \in DOMAIN made.inputs :
                       made.inputs[i].txo = t /\ \A j \in 1..(i - 1) : made.inputs[j].txo # t].amount
        total   == Total([i \in DOMAIN spent |-> amount(spent[i])])
    IN  /\ IsInjective(spent)
        /\ made.fee >= 0 /\ total < Word /\ (\A i \in DOMAIN made.requested : made.requested[i].amount >= 0)
             => total = Total([i \in DOMAIN outputs |-> outputs[i][1][2]]) + encoded.Fee
        /\ \A i \in DOMAIN outputs : i > Len(made.requested) => outputs[i][2][2] \in Owned
=============================================================================
