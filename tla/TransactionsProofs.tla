------------------------- MODULE TransactionsProofs -------------------------
(***************************************************************************)
(* Proofs about a transaction between its Create function and the raw      *)
(* bytes, for any unspent outputs, amounts, fees and cosigners.            *)
(*                                                                         *)
(* First, it survives the hands of its cosigners: what a Create function   *)
(* made is decoded by every later call to an object with the same bytes,   *)
(* so that all signatures and the raw transaction are over the bytes it    *)
(* was created with, and nothing that is decoded goes through a null       *)
(* pointer.  The inductive invariant says that what the host has is what   *)
(* was created followed by some programs, and which types, payloads and    *)
(* outputs the Create functions put together.                              *)
(*                                                                         *)
(* Then it is well formed and its amounts balance: a second invariant says *)
(* that what was made is what CreateTransaction makes of the inputs and    *)
(* outputs that were asked for; the inputs in order are the named ones,    *)
(* each once, and the sums are those of the words in the bytes.            *)
(***************************************************************************)
EXTENDS Transactions, DataProofs

(***************************************************************************)
(* The classes: Deserialize reads what Serialize writes.                   *)
(***************************************************************************)
Symmetric(F) == F.Deserialize = F.Serialize /\ Named(F.Serialize)

LEMMA UniformSymmetric ==
  ASSUME NEW wire, NEW json, Named(wire)
  PROVE  Symmetric(Uniform(wire, json))
BY DEF Symmetric, Uniform

LEMMA EmptySymmetric == Symmetric(Empty)
BY NamedNone DEF Symmetric, Empty

\* The payloads of the transactions.
LEMMA TransferAssetSymmetric == \A v : Symmetric(TransferAsset(v)) /\ Symmetric(ReturnDepositCoin(v))
BY EmptySymmetric DEF TransferAsset, ReturnDepositCoin

LEMMA TransferCrossChainAssetSymmetric ==
  ASSUME NEW v
  PROVE  Symmetric(TransferCrossChainAsset(v))
<1> DEFINE wire == When(v = 0, <<Nested("TransferInfo[]", "info")>>)
<1>1. Named(wire)
  BY NamedNone, NamedOne, CallsAreCalls DEF When, Unset
<1>2. TransferCrossChainAsset(v).Serialize = wire /\ TransferCrossChainAsset(v).Deserialize = wire
  BY DEF TransferCrossChainAsset, Uniform
<1>. QED BY <1>1, <1>2 DEF Symmetric

LEMMA ProducerInfoSymmetric ==
  ASSUME NEW v
  PROVE  Symmetric(ProducerInfo(v))
<1> DEFINE front == <<VarBytes("ownerPublicKey"), VarBytes("nodePublicKey"), VarBytes("nickName"), VarBytes("url")>>
           tail == <<Uint64("location"), VarBytes("address"), VarBytes("signature")>>
           wire == <<VarBytes("ownerPublicKey"), VarBytes("nodePublicKey"), VarBytes("nickName"),
                     VarBytes("url"), Uint64("location"), VarBytes("address"), VarBytes("signature")>>
<1>1. Named(front)
  BY NamedFour, CallsAreCalls DEF Unset
<1>2. Named(tail)
  BY NamedThree, CallsAreCalls DEF Unset
<1>3. wire = front \o tail
  OBVIOUS
<1>4. ProducerInfo(v).Serialize = wire /\ ProducerInfo(v).Deserialize = wire
  BY DEF ProducerInfo, Uniform
<1> HIDE DEF front, tail, wire
<1>5. Named(wire)
  BY <1>1, <1>2, <1>3, NamedConcat
<1>. QED BY <1>4, <1>5 DEF Symmetric

LEMMA CRInfoSymmetric ==
  ASSUME NEW v
  PROVE  Symmetric(CRInfo(v))
<1> DEFINE head == <<VarBytes("code"), Hash168("cid")>>
           more == When(v > CRInfoVersion, <<Hash168("did")>>)
           tail == <<VarBytes("nickName"), VarBytes("url"), Uint64("location"), VarBytes("signature")>>
           wire == head \o more \o tail
<1>1. Named(head)
  BY NamedTwo, CallsAreCalls DEF Unset
<1>2. Named(more)
  BY NamedNone, NamedOne, CallsAreCalls DEF When, Unset
<1>3. Named(tail)
  BY NamedFour, CallsAreCalls DEF Unset
<1>4. CRInfo(v).Serialize = wire /\ CRInfo(v).Deserialize = wire
  BY DEF CRInfo, Uniform
<1> HIDE DEF head, more, tail
<1>5. Named(wire)
  BY <1>1, <1>2, <1>3, NamedConcat
<1>. QED BY <1>4, <1>5 DEF Symmetric

LEMMA CRCProposalReviewSymmetric ==
  ASSUME NEW v
  PROVE  Symmetric(CRCProposalReview(v))
<1> DEFINE head == <<Hash256("proposalHash"), Uint8("voteResult"), Hash256("opinionHash")>>
           text == When(v >= 1, <<VarBytes("opinionData")>>)
           tail == <<Hash168("did"), VarBytes("signature")>>
           wire == head \o text \o tail
<1>1. Named(head)
  BY NamedThree, CallsAreCalls DEF Unset
<1>2. Named(text)
  BY NamedNone, NamedOne, CallsAreCalls DEF When, Unset
<1>3. Named(tail)
  BY NamedTwo, CallsAreCalls DEF Unset
<1>4. CRCProposalReview(v).Serialize = wire /\ CRCProposalReview(v).Deserialize = wire
  BY DEF CRCProposalReview, Uniform
<1> HIDE DEF head, text, tail
<1>5. Named(wire)
  BY <1>1, <1>2, <1>3, NamedConcat
<1>. QED BY <1>4, <1>5 DEF Symmetric

LEMMA CRCProposalWithdrawSymmetric ==
  ASSUME NEW v
  PROVE  Symmetric(CRCProposalWithdraw(v))
<1> DEFINE head == <<Hash256("proposalHash"), VarBytes("ownerPubkey")>>
           more == When(v = 1, <<Hash168("recipient"), Uint64("amount")>>)
           tail == <<VarBytes("signature")>>
           wire == head \o more \o tail
<1>1. Named(head)
  BY NamedTwo, CallsAreCalls DEF Unset
<1>2. Named(more)
  BY NamedNone, NamedTwo, CallsAreCalls DEF When, Unset
<1>3. Named(tail)
  BY NamedOne, CallsAreCalls DEF Unset
<1>4. CRCProposalWithdraw(v).Serialize = wire /\ CRCProposalWithdraw(v).Deserialize = wire
  BY DEF CRCProposalWithdraw, Uniform
<1> HIDE DEF head, more, tail
<1>5. Named(wire)
  BY <1>1, <1>2, <1>3, NamedConcat
<1>. QED BY <1>4, <1>5 DEF Symmetric

\* Deserialize of the tracking payload names the calls in one list, Serialize goes
\* through the functions of the three signers.
LEMMA CRCProposalTrackingSymmetric ==
  ASSUME NEW v
  PROVE  Symmetric(CRCProposalTracking(v))
<1> DEFINE head == <<Hash256("proposalHash"), Hash256("messageHash")>>
           text == When(v >= 1, <<VarBytes("messageData")>>)
           own == <<Uint8("stage"), VarBytes("ownerPubKey"), VarBytes("newOwnerPubKey")>>
           new == <<VarBytes("ownerSign")>>
           sec == <<VarBytes("newOwnerSign"), Uint8("type"), Hash256("secretaryGeneralOpinionHash")>>
           more == When(v >= 1, <<VarBytes("secretaryGeneralOpinionData")>>)
           last == <<VarBytes("secretaryGeneralSignature")>>
           seven == <<Uint8("stage"), VarBytes("ownerPubKey"), VarBytes("newOwnerPubKey"),
                      VarBytes("ownerSign"), VarBytes("newOwnerSign"), Uint8("type"),
                      Hash256("secretaryGeneralOpinionHash")>>
           front == head \o text
<1>1. Named(head)
  BY NamedTwo, CallsAreCalls DEF Unset
<1>2. Named(text) /\ Named(more)
  BY NamedNone, NamedOne, CallsAreCalls DEF When, Unset
<1>3. Named(own) /\ Named(sec)
  BY NamedThree, CallsAreCalls DEF Unset
<1>4. Named(new) /\ Named(last)
  BY NamedOne, CallsAreCalls DEF Unset
<1>5. seven = (own \o new) \o sec
  OBVIOUS
<1>6. /\ CRCProposalTracking(v).Serialize = ((((front \o own) \o new) \o sec) \o more) \o last
      /\ CRCProposalTracking(v).Deserialize = ((front \o seven) \o more) \o last
  BY DEF CRCProposalTracking, TrackingSecretaryUnsigned, TrackingNewOwnerUnsigned, TrackingOwnerUnsigned,
     Uniform
<1> HIDE DEF head, text, own, new, sec, more, last, seven
<1>7. Named(front)
  BY <1>1, <1>2, NamedConcat
<1> HIDE DEF front
<1>8. ((front \o own) \o new) \o sec = front \o seven
  <2>1. Named(own \o new)
    BY <1>3, <1>4, NamedConcat
  <2>2. (front \o own) \o new = front \o (own \o new)
    BY <1>3, <1>4, <1>7, ConcatAssoc DEF Named
  <2> DEFINE two == own \o new
  <2> HIDE DEF two
  <2>3. (front \o two) \o sec = front \o (two \o sec)
    BY <1>3, <1>7, <2>1, ConcatAssoc DEF Named, two
  <2>. QED BY <1>5, <2>2, <2>3 DEF two
<1>9. Named(((((front \o own) \o new) \o sec) \o more) \o last)
  BY <1>2, <1>3, <1>4, <1>7, NamedConcat
<1>. QED BY <1>6, <1>8, <1>9 DEF Symmetric

LEMMA SmallSymmetric ==
  ASSUME NEW v
  PROVE  /\ Symmetric(CancelProducer(v)) /\ Symmetric(UnregisterCR(v))
         /\ Symmetric(CRCouncilMemberClaimNode(v)) /\ Symmetric(DIDInfo(v))
<1>1. Symmetric(CancelProducer(v))
  BY UniformSymmetric, NamedTwo, CallsAreCalls DEF CancelProducer, Unset
<1>2. Symmetric(UnregisterCR(v))
  BY UniformSymmetric, NamedTwo, CallsAreCalls DEF UnregisterCR, Unset
<1>3. Symmetric(CRCouncilMemberClaimNode(v))
  BY UniformSymmetric, NamedThree, CallsAreCalls DEF CRCouncilMemberClaimNode, Unset
<1>4. Symmetric(DIDInfo(v))
  <2> DEFINE wire == <<Nested("DIDHeaderInfo", "header"), VarBytes("payload"), Nested("DIDProofInfo", "proof")>>
  <2>1. Named(wire)
    BY NamedThree, CallsAreCalls DEF Unset
  <2>2. DIDInfo(v).Serialize = wire /\ DIDInfo(v).Deserialize = wire
    BY DEF DIDInfo, Uniform
  <2>. QED BY <2>1, <2>2 DEF Symmetric
<1>. QED BY <1>1, <1>2, <1>3, <1>4

LEMMA StakingSymmetric ==
  ASSUME NEW v
  PROVE  /\ Symmetric(Stake(v)) /\ Symmetric(Voting(v)) /\ Symmetric(DPoSV2ClaimReward(v))
         /\ Symmetric(CancelVotes(v)) /\ Symmetric(Unstake(v))
<1>1. Symmetric(Stake(v))
  BY EmptySymmetric DEF Stake
<1>2. Symmetric(Voting(v))
  <2> DEFINE new == When(v = 0, <<Nested("VotesContent[]", "contents")>>)
             renewal == When(v = 1, <<Nested("RenewalVotesContent[]", "renewalVotesContent")>>)
  <2>1. Named(new) /\ Named(renewal)
    BY NamedNone, NamedOne, CallsAreCalls DEF When, Unset
  <2>2. Voting(v).Serialize = new \o renewal /\ Voting(v).Deserialize = new \o renewal
    BY DEF Voting, Uniform
  <2> HIDE DEF new, renewal
  <2>. QED BY <2>1, <2>2, NamedConcat DEF Symmetric
<1>3. Symmetric(DPoSV2ClaimReward(v))
  BY UniformSymmetric, NamedTwo, CallsAreCalls DEF DPoSV2ClaimReward, Unset
<1>4. Symmetric(CancelVotes(v))
  BY UniformSymmetric, NamedOne, CallsAreCalls DEF CancelVotes, Unset
<1>5. Symmetric(Unstake(v))
  BY UniformSymmetric, NamedFour, CallsAreCalls DEF Unstake, Unset
<1>. QED BY <1>1, <1>2, <1>3, <1>4, <1>5

\* The payloads of the outputs.
LEMMA OutputsSymmetric ==
  ASSUME NEW v
  PROVE  /\ Symmetric(PayloadDefault(v)) /\ Symmetric(PayloadVote(v)) /\ Symmetric(PayloadCrossChain(v))
         /\ Symmetric(PayloadStake(v))
<1>1. Symmetric(PayloadDefault(v))
  BY EmptySymmetric DEF PayloadDefault
<1>2. Symmetric(PayloadVote(v))
  BY UniformSymmetric, NamedTwo, CallsAreCalls DEF PayloadVote, Unset
<1>3. Symmetric(PayloadCrossChain(v))
  BY UniformSymmetric, NamedFour, CallsAreCalls DEF PayloadCrossChain, Unset
<1>4. Symmetric(PayloadStake(v))
  BY UniformSymmetric, NamedTwo, CallsAreCalls DEF PayloadStake, Unset
<1>. QED BY <1>1, <1>2, <1>3, <1>4

\* The proposals begin with their type.
SignedTypes == ProposalTypes \ UpgradeTypes

LEMMA BodyNamed ==
  ASSUME NEW t \in SignedTypes
  PROVE  Named(Body(t))
<1>1. Named(NormalOrELIP)
  BY NamedTwo, CallsAreCalls DEF NormalOrELIP, Unset
<1>2. Named(ChangeOwner)
  BY NamedThree, CallsAreCalls DEF ChangeOwner, Unset
<1>3. Named(TerminateProposal)
  BY NamedOne, CallsAreCalls DEF TerminateProposal, Unset
<1>4. Named(SecretaryElection)
  BY NamedTwo, CallsAreCalls DEF SecretaryElection, Unset
<1>5. Named(ReserveCustomID)
  BY NamedOne, CallsAreCalls DEF ReserveCustomID, Unset
<1>6. Named(ReceiveCustomID)
  BY NamedTwo, CallsAreCalls DEF ReceiveCustomID, Unset
<1>7. Named(ChangeCustomIDFee)
  BY NamedOne, CallsAreCalls DEF ChangeCustomIDFee, Unset
<1>8. Named(RegisterSidechain)
  BY NamedOne, CallsAreCalls DEF RegisterSidechain, Unset
<1>9. Body(t) \in {NormalOrELIP, ChangeOwner, TerminateProposal, SecretaryElection, ReserveCustomID,
                   ReceiveCustomID, ChangeCustomIDFee, RegisterSidechain}
  BY DEF Body, SignedTypes, ProposalTypes, UpgradeTypes
<1>. QED BY <1>1, <1>2, <1>3, <1>4, <1>5, <1>6, <1>7, <1>8, <1>9

LEMMA CRCProposalSymmetric ==
  ASSUME NEW t \in SignedTypes, NEW v \in 0..1
  PROVE  /\ Symmetric(CRCProposal(t, v))
         /\ Len(CRCProposal(t, v).Serialize) > 0
         /\ CRCProposal(t, v).Serialize[1] = Uint16("type")
<1> DEFINE head == <<Uint16("type"), VarBytes("categoryData"), VarBytes("ownerPublicKey"), Hash256("draftHash")>>
           text == When(v >= 1 /\ t \notin UpgradeTypes, <<VarBytes("draftData")>>)
           sig == <<VarBytes("signature")>>
           own == When(t = "changeProposalOwner", <<VarBytes("newOwnerSignature")>>)
           sec == When(t = "secretaryGeneralElection", <<VarBytes("secretarySignature")>>)
           did == <<Hash168("crCouncilMemberDID")>>
           last == <<VarBytes("crCouncilMemberSignature")>>
           s1 == head \o text
           s2 == s1 \o Body(t)
           s3 == s2 \o sig
           s4 == s3 \o (own \o sec)
           s5 == s4 \o did
           wire == s5 \o last
<1>1. Named(head) /\ Len(head) = 4 /\ head[1] = Uint16("type")
  BY NamedFour, CallsAreCalls DEF Unset
<1>2. Named(text) /\ Named(own) /\ Named(sec)
  BY NamedNone, NamedOne, CallsAreCalls DEF When, Unset
<1>3. Named(sig) /\ Named(did) /\ Named(last)
  BY NamedOne, CallsAreCalls DEF Unset
<1>4. Named(Body(t))
  BY BodyNamed
<1>5. CRCProposal(t, v).Serialize = wire /\ CRCProposal(t, v).Deserialize = wire
  <2>1. t \notin UpgradeTypes
    BY DEF SignedTypes
  <2>2. CRCouncilMemberUnsigned(t, v) = s5
    BY DEF CRCouncilMemberUnsigned, OwnerUnsigned, Cosigned
  <2> HIDE DEF s5
  <2>. QED BY <2>1, <2>2 DEF CRCProposal
<1> HIDE DEF head, text, sig, own, sec, did, last
<1>6. ASSUME NEW a, NEW b, Named(a), Named(b), Len(a) > 0, a[1] = Uint16("type")
      PROVE  Named(a \o b) /\ Len(a \o b) > 0 /\ (a \o b)[1] = Uint16("type")
  BY <1>6, NamedConcat, LayoutConcat DEF Named
<1>7. Named(own \o sec)
  BY <1>2, NamedConcat
<1> DEFINE Begins(s) == Named(s) /\ Len(s) > 0 /\ s[1] = Uint16("type")
<1>8. Begins(s1)
  BY <1>1, <1>2, <1>6
<1> HIDE DEF s1
<1>9. Begins(s2)
  BY <1>4, <1>6, <1>8
<1> HIDE DEF s2
<1>10. Begins(s3)
  BY <1>3, <1>6, <1>9
<1> HIDE DEF s3
<1>11. Begins(s4)
  BY <1>6, <1>7, <1>10
<1> HIDE DEF s4
<1>12. Begins(s5)
  BY <1>3, <1>6, <1>11
<1> HIDE DEF s5
<1>13. Begins(wire)
  BY <1>3, <1>6, <1>12
<1>. QED BY <1>5, <1>13 DEF Symmetric

\* The classes that the Create functions use.
PlanClasses ==
  {"TransferAsset", "TransferCrossChainAsset", "ProducerInfo", "CRInfo", "ReturnDepositCoin",
   "CancelProducer", "UnregisterCR", "CRCouncilMemberClaimNode", "CRCProposalReview",
   "CRCProposalTracking", "CRCProposalWithdraw", "DIDInfo", "Stake", "Voting", "DPoSV2ClaimReward",
   "CancelVotes", "Unstake"}

OutputClasses == {"PayloadDefault", "PayloadVote", "PayloadCrossChain", "PayloadStake"}

LEMMA PlainFunctions ==
  ASSUME NEW c \in PlanClasses \cup OutputClasses, NEW v
  PROVE  Symmetric(Functions(c, v))
<1> USE DEF Functions, ProposalTypes, UpgradeTypes
<1>1. CASE c \in {"TransferAsset", "ReturnDepositCoin"}
  BY <1>1, TransferAssetSymmetric
<1>2. CASE c = "TransferCrossChainAsset"
  BY <1>2, TransferCrossChainAssetSymmetric
<1>3. CASE c = "ProducerInfo"
  BY <1>3, ProducerInfoSymmetric
<1>4. CASE c = "CRInfo"
  BY <1>4, CRInfoSymmetric
<1>5. CASE c = "CRCProposalReview"
  BY <1>5, CRCProposalReviewSymmetric
<1>6. CASE c = "CRCProposalTracking"
  BY <1>6, CRCProposalTrackingSymmetric
<1>7. CASE c = "CRCProposalWithdraw"
  BY <1>7, CRCProposalWithdrawSymmetric
<1>8. CASE c \in {"CancelProducer", "UnregisterCR", "CRCouncilMemberClaimNode", "DIDInfo"}
  BY <1>8, SmallSymmetric
<1>9. CASE c \in {"Stake", "Voting", "DPoSV2ClaimReward", "CancelVotes", "Unstake"}
  BY <1>9, StakingSymmetric
<1>10. CASE c \in OutputClasses
  BY <1>10, OutputsSymmetric DEF OutputClasses
<1>. QED BY <1>1, <1>2, <1>3, <1>4, <1>5, <1>6, <1>7, <1>8, <1>9, <1>10 DEF PlanClasses

LEMMA ProposalFunctions ==
  ASSUME NEW t \in SignedTypes, NEW v
  PROVE  Functions(t, v) = CRCProposal(t, v)
BY DEF Functions, SignedTypes, ProposalTypes

(***************************************************************************)
(* The payloads of the types.                                              *)
(***************************************************************************)
LEMMA LookupOne ==
  ASSUME NEW classes, NEW codes, NEW type, NEW other, NEW n \in DOMAIN classes,
         codes[n] = type, \A m \in DOMAIN classes : codes[m] = type => m = n
  PROVE  Lookup(classes, codes, type, other) = classes[n]
<1>1. {m \in DOMAIN classes : codes[m] = type} = {n}
  OBVIOUS
<1>2. (CHOOSE m \in {n} : TRUE) = n
  OBVIOUS
<1>. QED BY <1>1, <1>2 DEF Lookup

LEMMA LookupNone ==
  ASSUME NEW classes, NEW codes, NEW type, NEW other, \A m \in DOMAIN classes : codes[m] # type
  PROVE  Lookup(classes, codes, type, other) = other
<1>1. {m \in DOMAIN classes : codes[m] = type} = {}
  OBVIOUS
<1>. QED BY <1>1 DEF Lookup

\* On the main chain.
LEMMA MainLookup ==
  ASSUME NEW type
  PROVE  InitPayload("ELA", type) = Lookup(Payloads, Types, type, Null)
<1>1. DOMAIN <<>> = {}
  OBVIOUS
<1>2. InitPayload("ELA", type) = Lookup(<<>>, IDTypes, type, Lookup(Payloads, Types, type, Null))
  BY DEF InitPayload
<1>. QED BY <1>1, <1>2, LookupNone

LEMMA CodesOfClasses ==
  DOMAIN Payloads =
    {"coinBase", "registerAsset", "transferAsset", "record", "sideChainPow", "rechargeToSideChain",
     "withdrawFromSideChain", "transferCrossChainAsset", "registerProducer", "updateProducer",
     "cancelProducer", "returnDepositCoin", "nextTurnDPOSInfo", "registerCR", "updateCR", "unregisterCR",
     "returnCRDepositCoin", "crcProposal", "crcProposalReview", "crcProposalTracking",
     "crcProposalWithdraw", "crcProposalRealWithdraw", "crcAssetsRectify", "crCouncilMemberClaimNode"}
BY DEF Payloads

LEMMA TypeCodes ==
  /\ Types["coinBase"] = 0 /\ Types["registerAsset"] = 1 /\ Types["transferAsset"] = 2
  /\ Types["record"] = 3 /\ Types["sideChainPow"] = 5 /\ Types["rechargeToSideChain"] = 6
  /\ Types["withdrawFromSideChain"] = 7 /\ Types["transferCrossChainAsset"] = 8
  /\ Types["registerProducer"] = 9 /\ Types["cancelProducer"] = 10 /\ Types["updateProducer"] = 11
  /\ Types["returnDepositCoin"] = 12 /\ Types["nextTurnDPOSInfo"] = 20 /\ Types["registerCR"] = 33
  /\ Types["unregisterCR"] = 34 /\ Types["updateCR"] = 35 /\ Types["returnCRDepositCoin"] = 36
  /\ Types["crcProposal"] = 37 /\ Types["crcProposalReview"] = 38 /\ Types["crcProposalTracking"] = 39
  /\ Types["crcProposalWithdraw"] = 41 /\ Types["crcProposalRealWithdraw"] = 42
  /\ Types["crcAssetsRectify"] = 43 /\ Types["crCouncilMemberClaimNode"] = 49
  /\ Types["DposV2ClaimReward"] = 96 /\ Types["Stake"] = 98 /\ Types["Voting"] = 99
  /\ Types["CancelVotes"] = 100 /\ Types["Unstake"] = 101
BY DEF Types

\* A type with a class has one.
LEMMA MainPayload ==
  ASSUME NEW n \in DOMAIN Payloads
  PROVE  InitPayload("ELA", Types[n]) = Payloads[n]
<1>1. \A m \in DOMAIN Payloads : Types[m] = Types[n] => m = n
  BY CodesOfClasses, TypeCodes
<1>. QED BY <1>1, MainLookup, LookupOne

\* The staking types have none.
LEMMA StakingPayload ==
  ASSUME NEW type \in StakingTypes
  PROVE  InitPayload("ELA", type) = Null
<1>1. type \in {96, 98, 99, 100, 101}
  BY TypeCodes DEF StakingTypes
<1>2. \A m \in DOMAIN Payloads : Types[m] # type
  BY <1>1, CodesOfClasses, TypeCodes
<1>. QED BY <1>2, MainLookup, LookupNone

\* On the ID chain.
LEMMA IDPayload ==
  /\ InitPayload("IDChain", IDTypes.didTransaction) = "DIDInfo"
  /\ InitPayload("IDChain", Types.transferAsset) = "TransferAsset"
  /\ InitPayload("IDChain", Types.transferCrossChainAsset) = "TransferCrossChainAsset"
<1>1. /\ DOMAIN IDPayloads = {"registerIdentification", "didTransaction"}
      /\ IDTypes["registerIdentification"] = 9 /\ IDTypes["didTransaction"] = 10
      /\ IDPayloads["didTransaction"] = "DIDInfo"
  BY DEF IDPayloads, IDTypes
<1>2. \A type : InitPayload("IDChain", type) =
                  Lookup(IDPayloads, IDTypes, type, Lookup(Payloads, Types, type, Null))
  BY DEF InitPayload
<1>3. InitPayload("IDChain", 10) = "DIDInfo"
  <2>1. "didTransaction" \in DOMAIN IDPayloads
    BY <1>1
  <2>2. \A m \in DOMAIN IDPayloads : IDTypes[m] = 10 => m = "didTransaction"
    BY <1>1
  <2>. QED BY <1>1, <1>2, <2>1, <2>2, LookupOne
<1>4. ASSUME NEW n \in {"transferAsset", "transferCrossChainAsset"}
      PROVE  InitPayload("IDChain", Types[n]) = Payloads[n]
  <2>1. \A m \in DOMAIN IDPayloads : IDTypes[m] # Types[n]
    BY <1>1, TypeCodes
  <2>2. InitPayload("IDChain", Types[n]) = Lookup(Payloads, Types, Types[n], Null)
    BY <1>2, <2>1, LookupNone
  <2>3. n \in DOMAIN Payloads
    BY CodesOfClasses
  <2>4. InitPayload("ELA", Types[n]) = Payloads[n]
    BY <2>3, MainPayload
  <2>. QED BY <2>2, <2>4, MainLookup
<1>5. Payloads["transferAsset"] = "TransferAsset" /\ Payloads["transferCrossChainAsset"] = "TransferCrossChainAsset"
  BY DEF Payloads
<1>6. IDTypes.didTransaction = 10
  BY DEF IDTypes
<1>. QED BY <1>3, <1>4, <1>5, <1>6

(***************************************************************************)
(* What the Create functions put together.                                 *)
(***************************************************************************)
IsStaking(chain, type) == chain = "ELA" /\ type \in StakingTypes

\* The payload of an output has the class that is read for its type, except in a
\* staking transaction; a side chain has payments only.
GoodOutput(chain, type, o) ==
  /\ o.amount \in Int /\ o.class \in OutputClasses
  /\ ~IsStaking(chain, type) => GeneratePayload(o.type) = o.class
  /\ chain # "ELA" => o.type = OutputTypes.Default /\ o.class = "PayloadDefault"

GoodOutputs(chain, type, outputs) ==
  IsLayout(outputs) /\ \A i \in DOMAIN outputs : GoodOutput(chain, type, outputs[i])

\* The payload has the class that is read for the type of the transaction.
GoodClass(chain, type, class) ==
  /\ class \in PlanClasses \cup SignedTypes
  /\ InitPayload(chain, type) =
       IF IsStaking(chain, type) THEN Null ELSE IF class \in SignedTypes THEN "CRCProposal" ELSE class

GoodPlan(chain, plan) ==
  /\ plan.version \in 0..1
  /\ GoodClass(chain, plan.type, plan.class)
  /\ GoodOutputs(chain, plan.type, plan.outputs)

LEMMA PlanIsGood ==
  ASSUME NEW chain, NEW type, NEW class, NEW version \in 0..1, NEW outputs,
         GoodClass(chain, type, class), GoodOutputs(chain, type, outputs)
  PROVE  /\ GoodPlan(chain, Plan(type, class, version, outputs, TRUE))
         /\ GoodPlan(chain, Plan(type, class, version, outputs, FALSE))
BY DEF GoodPlan, Plan

\* Outputs.
LEMMA PaymentIsGood ==
  ASSUME NEW chain, NEW type, NEW amount \in Int, NEW address
  PROVE  GoodOutput(chain, type, Payment(amount, address))
BY DEF GoodOutput, Payment, Output, OutputClasses, GeneratePayload, OutputTypes

LEMMA NoOutputs ==
  ASSUME NEW chain, NEW type
  PROVE  GoodOutputs(chain, type, <<>>)
BY LayoutOfNone DEF GoodOutputs

LEMMA OneOutput ==
  ASSUME NEW chain, NEW type, NEW o, GoodOutput(chain, type, o)
  PROVE  GoodOutputs(chain, type, <<o>>)
BY LayoutOfOne DEF GoodOutputs

LEMMA SomePayments ==
  ASSUME NEW chain, NEW type, NEW amount \in Int, NEW address, NEW n \in Nat
  PROVE  GoodOutputs(chain, type, [i \in 1..n |-> Payment(amount, address)])
<1> DEFINE p == Payment(amount, address)
<1>1. GoodOutput(chain, type, p)
  BY PaymentIsGood
<1> HIDE DEF p
<1>2. [i \in 1..n |-> p] \in Seq({p})
  OBVIOUS
<1>3. GoodOutputs(chain, type, [i \in 1..n |-> p])
  BY <1>1, <1>2 DEF GoodOutputs, IsLayout
<1>. QED BY <1>3 DEF p

\* Classes.
LEMMA PlainIsNotSigned == \A c \in PlanClasses : c \notin SignedTypes
BY DEF PlanClasses, SignedTypes, ProposalTypes

LEMMA MainClass ==
  ASSUME NEW n \in DOMAIN Payloads, Payloads[n] \in PlanClasses
  PROVE  GoodClass("ELA", Types[n], Payloads[n])
<1>1. ~IsStaking("ELA", Types[n])
  BY CodesOfClasses, TypeCodes DEF IsStaking, StakingTypes
<1>2. InitPayload("ELA", Types[n]) = Payloads[n]
  BY MainPayload
<1>. QED BY <1>1, <1>2, PlainIsNotSigned DEF GoodClass

LEMMA ProposalClass ==
  ASSUME NEW t \in SignedTypes
  PROVE  GoodClass("ELA", Types.crcProposal, t)
<1>1. "crcProposal" \in DOMAIN Payloads
  BY CodesOfClasses
<1>2. ~IsStaking("ELA", Types["crcProposal"])
  BY TypeCodes DEF IsStaking, StakingTypes
<1>3. InitPayload("ELA", Types["crcProposal"]) = Payloads["crcProposal"]
  BY <1>1, MainPayload
<1>4. Payloads["crcProposal"] = "CRCProposal"
  BY DEF Payloads
<1>. QED BY <1>2, <1>3, <1>4 DEF GoodClass

LEMMA StakingClass ==
  ASSUME NEW type \in StakingTypes, NEW class \in PlanClasses
  PROVE  GoodClass("ELA", type, class)
BY StakingPayload DEF GoodClass, IsStaking

LEMMA SideClass ==
  /\ GoodClass("IDChain", IDTypes.didTransaction, "DIDInfo")
  /\ GoodClass("IDChain", Types.transferAsset, "TransferAsset")
  /\ GoodClass("IDChain", Types.transferCrossChainAsset, "TransferCrossChainAsset")
BY IDPayload, PlainIsNotSigned DEF GoodClass, IsStaking, PlanClasses

\* The classes of the main chain that the Create functions use, by the type.
LEMMA MainClasses ==
  /\ GoodClass("ELA", Types.transferAsset, "TransferAsset")
  /\ GoodClass("ELA", Types.transferCrossChainAsset, "TransferCrossChainAsset")
  /\ GoodClass("ELA", Types.registerProducer, "ProducerInfo")
  /\ GoodClass("ELA", Types.updateProducer, "ProducerInfo")
  /\ GoodClass("ELA", Types.cancelProducer, "CancelProducer")
  /\ GoodClass("ELA", Types.returnDepositCoin, "ReturnDepositCoin")
  /\ GoodClass("ELA", Types.returnCRDepositCoin, "ReturnDepositCoin")
  /\ GoodClass("ELA", Types.registerCR, "CRInfo")
  /\ GoodClass("ELA", Types.updateCR, "CRInfo")
  /\ GoodClass("ELA", Types.unregisterCR, "UnregisterCR")
  /\ GoodClass("ELA", Types.crCouncilMemberClaimNode, "CRCouncilMemberClaimNode")
  /\ GoodClass("ELA", Types.crcProposalReview, "CRCProposalReview")
  /\ GoodClass("ELA", Types.crcProposalTracking, "CRCProposalTracking")
  /\ GoodClass("ELA", Types.crcProposalWithdraw, "CRCProposalWithdraw")
<1> DEFINE used == {"transferAsset", "transferCrossChainAsset", "registerProducer", "updateProducer",
                    "cancelProducer", "returnDepositCoin", "returnCRDepositCoin", "registerCR", "updateCR",
                    "unregisterCR", "crCouncilMemberClaimNode", "crcProposalReview", "crcProposalTracking",
                    "crcProposalWithdraw"}
<1>1. \A n \in used : n \in DOMAIN Payloads
  BY CodesOfClasses
<1>2. /\ Payloads["transferAsset"] = "TransferAsset"
      /\ Payloads["transferCrossChainAsset"] = "TransferCrossChainAsset"
      /\ Payloads["registerProducer"] = "ProducerInfo" /\ Payloads["updateProducer"] = "ProducerInfo"
      /\ Payloads["cancelProducer"] = "CancelProducer"
      /\ Payloads["returnDepositCoin"] = "ReturnDepositCoin"
      /\ Payloads["returnCRDepositCoin"] = "ReturnDepositCoin"
      /\ Payloads["registerCR"] = "CRInfo" /\ Payloads["updateCR"] = "CRInfo"
      /\ Payloads["unregisterCR"] = "UnregisterCR"
      /\ Payloads["crCouncilMemberClaimNode"] = "CRCouncilMemberClaimNode"
      /\ Payloads["crcProposalReview"] = "CRCProposalReview"
      /\ Payloads["crcProposalTracking"] = "CRCProposalTracking"
      /\ Payloads["crcProposalWithdraw"] = "CRCProposalWithdraw"
  BY DEF Payloads
<1>3. \A n \in used : Payloads[n] \in PlanClasses
  BY <1>2 DEF PlanClasses
<1>4. \A n \in used : GoodClass("ELA", Types[n], Payloads[n])
  BY <1>1, <1>3, MainClass
<1>. QED BY <1>2, <1>4

\* The Create functions, those that pay first.
LEMMA TransferPlans ==
  ASSUME NEW chain \in Chains, NEW a, a.amount \in Int
  PROVE  \A plan \in CreateTransaction(a) : GoodPlan(chain, plan)
<1>1. GoodClass(chain, Types.transferAsset, "TransferAsset")
  BY MainClasses, SideClass DEF Chains
<1>2. \A n \in 0..2 : GoodOutputs(chain, Types.transferAsset, [i \in 1..n |-> Payment(a.amount, "other")])
  BY SomePayments
<1> DEFINE outputs(n) == [i \in 1..n |-> Payment(a.amount, "other")]
           P(n) == Plan(Types.transferAsset, "TransferAsset", 0, outputs(n), FALSE)
<1>3. CreateTransaction(a) = {P(n) : n \in IF a.amount < 0 THEN {0} ELSE 0..2}
  BY DEF CreateTransaction
<1>4. ASSUME NEW n \in 0..2 PROVE GoodPlan(chain, P(n))
  <2>1. GoodOutputs(chain, Types.transferAsset, outputs(n))
    BY <1>2
  <2> HIDE DEF outputs
  <2>. QED BY <1>1, <2>1 DEF GoodPlan, Plan
<1> HIDE DEF P
<1>5. \A plan \in CreateTransaction(a) : \E n \in 0..2 : plan = P(n)
  BY <1>3
<1>. QED BY <1>4, <1>5

LEMMA DepositPlans ==
  ASSUME NEW a, a.amount \in Int
  PROVE  \A plan \in CreateDepositTransaction(a) : GoodPlan("ELA", plan)
<1> DEFINE type == Types.transferCrossChainAsset
           amount == a.amount + CrossChainFee
           one == Payment(amount, "lock")
           new == Output(amount, "lock", OutputTypes.CrossChain, "PayloadCrossChain")
<1>1. GoodClass("ELA", type, "TransferCrossChainAsset")
  BY MainClasses
<1>2. amount \in Int
  BY AmountsAssumption
<1>3. GoodOutput("ELA", type, new)
  BY <1>2 DEF GoodOutput, Output, OutputClasses, GeneratePayload, OutputTypes
<1>4. GoodOutput("ELA", type, one)
  BY <1>2, PaymentIsGood
<1>5. \A plan \in CreateDepositTransaction(a) :
        \/ plan = Plan(type, "TransferCrossChainAsset", 0, <<one>>, FALSE)
        \/ plan = Plan(type, "TransferCrossChainAsset", 1, <<new>>, FALSE)
  BY DEF CreateDepositTransaction
<1> HIDE DEF type, one, new
<1>6. GoodOutputs("ELA", type, <<one>>) /\ GoodOutputs("ELA", type, <<new>>)
  BY <1>3, <1>4, OneOutput
<1>7. /\ GoodPlan("ELA", Plan(type, "TransferCrossChainAsset", 0, <<one>>, FALSE))
      /\ GoodPlan("ELA", Plan(type, "TransferCrossChainAsset", 1, <<new>>, FALSE))
  BY <1>1, <1>6 DEF GoodPlan, Plan
<1>. QED BY <1>5, <1>7

\* One payment.
LEMMA PaymentPlan ==
  ASSUME NEW chain, NEW type, NEW class, GoodClass(chain, type, class), NEW amount \in Int, NEW address
  PROVE  /\ GoodPlan(chain, Plan(type, class, 0, <<Payment(amount, address)>>, TRUE))
         /\ GoodPlan(chain, Plan(type, class, 0, <<Payment(amount, address)>>, FALSE))
         /\ GoodPlan(chain, Plan(type, class, 1, <<Payment(amount, address)>>, FALSE))
<1> DEFINE p == Payment(amount, address)
           out == <<p>>
<1>1. GoodOutput(chain, type, p)
  BY PaymentIsGood
<1> HIDE DEF p
<1>2. GoodOutputs(chain, type, out)
  BY <1>1, OneOutput
<1> HIDE DEF out
<1>3. /\ GoodPlan(chain, Plan(type, class, 0, out, TRUE))
      /\ GoodPlan(chain, Plan(type, class, 0, out, FALSE))
      /\ GoodPlan(chain, Plan(type, class, 1, out, FALSE))
  BY <1>2 DEF GoodPlan, Plan
<1>. QED BY <1>3 DEF p, out

\* Nothing but the payload.
LEMMA BarePlan ==
  ASSUME NEW chain, NEW type, NEW class, GoodClass(chain, type, class)
  PROVE  /\ GoodPlan(chain, Plan(type, class, 0, <<>>, FALSE))
         /\ GoodPlan(chain, Plan(type, class, 1, <<>>, FALSE))
BY NoOutputs DEF GoodPlan, Plan

LEMMA PayingPlans ==
  ASSUME NEW a, a.amount \in Int, a.fee \in Int
  PROVE  /\ \A plan \in CreateRegisterProducerTransaction(a) : GoodPlan("ELA", plan)
         /\ \A plan \in CreateRegisterCRTransaction(a) : GoodPlan("ELA", plan)
         /\ \A plan \in CreateRetrieveDepositTransaction(a) : GoodPlan("ELA", plan)
         /\ \A plan \in CreateRetrieveCRDepositTransaction(a) : GoodPlan("ELA", plan)
<1>0. a.amount - a.fee \in Int
  OBVIOUS
<1>1. \A plan \in CreateRegisterProducerTransaction(a) : GoodPlan("ELA", plan)
  <2>1. GoodPlan("ELA", Plan(Types.registerProducer, "ProducerInfo", 0, <<Payment(a.amount, "deposit")>>, FALSE))
    BY MainClasses, PaymentPlan
  <2>. QED BY <2>1 DEF CreateRegisterProducerTransaction
<1>2. \A plan \in CreateRegisterCRTransaction(a) : GoodPlan("ELA", plan)
  <2>1. GoodPlan("ELA", Plan(Types.registerCR, "CRInfo", 1, <<Payment(a.amount, "deposit")>>, FALSE))
    BY MainClasses, PaymentPlan
  <2>. QED BY <2>1 DEF CreateRegisterCRTransaction
<1>3. \A plan \in CreateRetrieveDepositTransaction(a) : GoodPlan("ELA", plan)
  <2>1. GoodPlan("ELA", Plan(Types.returnDepositCoin, "ReturnDepositCoin", 0,
                             <<Payment(a.amount - a.fee, Address0)>>, TRUE))
    BY <1>0, MainClasses, PaymentPlan
  <2>. QED BY <2>1 DEF CreateRetrieveDepositTransaction
<1>4. \A plan \in CreateRetrieveCRDepositTransaction(a) : GoodPlan("ELA", plan)
  <2>1. GoodPlan("ELA", Plan(Types.returnCRDepositCoin, "ReturnDepositCoin", 0,
                             <<Payment(a.amount - a.fee, First(a.utxos))>>, TRUE))
    BY <1>0, MainClasses, PaymentPlan
  <2>. QED BY <2>1 DEF CreateRetrieveCRDepositTransaction
<1>. QED BY <1>1, <1>2, <1>3, <1>4

\* Outputs with a payload of their own: the one of a stake has a type that
\* GeneratePayload does not know.
LEMMA VotePlans ==
  ASSUME NEW a, a.amount \in Int
  PROVE  \A plan \in CreateVoteTransaction(a) : GoodPlan("ELA", plan)
<1> DEFINE type == Types.transferAsset
           o == Output(a.amount, First(a.utxos), OutputTypes.VoteOutput, "PayloadVote")
           out == <<o>>
           P == Plan(type, "TransferAsset", 0, out, TRUE)
<1>1. GoodOutput("ELA", type, o)
  BY DEF GoodOutput, Output, OutputClasses, GeneratePayload, OutputTypes
<1>2. GoodClass("ELA", type, "TransferAsset")
  BY MainClasses
<1>3. \A plan \in CreateVoteTransaction(a) : plan = P
  BY DEF CreateVoteTransaction
<1> HIDE DEF type, o
<1>4. GoodOutputs("ELA", type, out)
  BY <1>1, OneOutput
<1> HIDE DEF out
<1>5. GoodPlan("ELA", P)
  BY <1>2, <1>4 DEF GoodPlan, Plan
<1>. QED BY <1>3, <1>5

LEMMA StakePlans ==
  ASSUME NEW a, a.amount \in Int
  PROVE  \A plan \in CreateStakeTransaction(a) : GoodPlan("ELA", plan)
<1> DEFINE type == Types.Stake
           o == Output(a.amount, "lock", OutputTypes.Stake, "PayloadStake")
           out == <<o>>
           P == Plan(type, "Stake", 0, out, FALSE)
<1>0. type \in StakingTypes
  BY DEF StakingTypes
<1>1. GoodOutput("ELA", type, o)
  BY <1>0 DEF GoodOutput, Output, OutputClasses, IsStaking
<1>2. GoodClass("ELA", type, "Stake")
  BY <1>0, StakingClass DEF PlanClasses
<1>3. \A plan \in CreateStakeTransaction(a) : plan = P
  BY DEF CreateStakeTransaction
<1> HIDE DEF type, o
<1>4. GoodOutputs("ELA", type, out)
  BY <1>1, OneOutput
<1> HIDE DEF out
<1>5. GoodPlan("ELA", P)
  BY <1>2, <1>4 DEF GoodPlan, Plan
<1>. QED BY <1>3, <1>5

LEMMA ProposalPlans ==
  ASSUME NEW a
  PROVE  \A plan \in CreateProposalTransactions(a) : GoodPlan("ELA", plan)
<1>1. \A t \in SignedTypes : GoodPlan("ELA", Plan(Types.crcProposal, t, 0, <<>>, FALSE))
                             /\ GoodPlan("ELA", Plan(Types.crcProposal, t, 1, <<>>, FALSE))
  BY ProposalClass, BarePlan
<1>2. ASSUME NEW plan \in CreateProposalTransactions(a) PROVE GoodPlan("ELA", plan)
  <2>1. PICK t \in SignedTypes, v \in 0..1 : plan = Plan(Types.crcProposal, t, v, <<>>, FALSE)
    BY <1>2 DEF CreateProposalTransactions, SignedTypes, Plan
  <2>2. v = 0 \/ v = 1
    OBVIOUS
  <2>. QED BY <1>1, <2>1, <2>2
<1>. QED BY <1>2

LEMMA BarePlans ==
  ASSUME NEW a
  PROVE  /\ \A plan \in CreateUpdateProducerTransaction(a) : GoodPlan("ELA", plan)
         /\ \A plan \in CreateCancelProducerTransaction(a) : GoodPlan("ELA", plan)
         /\ \A plan \in CreateUpdateCRTransaction(a) : GoodPlan("ELA", plan)
         /\ \A plan \in CreateUnregisterCRTransaction(a) : GoodPlan("ELA", plan)
         /\ \A plan \in CreateCRCouncilMemberClaimNodeTransaction(a) : GoodPlan("ELA", plan)
         /\ \A plan \in CreateProposalReviewTransaction(a) : GoodPlan("ELA", plan)
         /\ \A plan \in CreateProposalTrackingTransaction(a) : GoodPlan("ELA", plan)
         /\ \A plan \in CreateProposalWithdrawTransaction(a) : GoodPlan("ELA", plan)
<1>1. \A plan \in CreateUpdateProducerTransaction(a) : GoodPlan("ELA", plan)
  BY MainClasses, BarePlan DEF CreateUpdateProducerTransaction
<1>2. \A plan \in CreateCancelProducerTransaction(a) : GoodPlan("ELA", plan)
  BY MainClasses, BarePlan DEF CreateCancelProducerTransaction
<1>3. \A plan \in CreateUpdateCRTransaction(a) : GoodPlan("ELA", plan)
  BY MainClasses, BarePlan DEF CreateUpdateCRTransaction
<1>4. \A plan \in CreateUnregisterCRTransaction(a) : GoodPlan("ELA", plan)
  BY MainClasses, BarePlan DEF CreateUnregisterCRTransaction
<1>5. \A plan \in CreateCRCouncilMemberClaimNodeTransaction(a) : GoodPlan("ELA", plan)
  BY MainClasses, BarePlan DEF CreateCRCouncilMemberClaimNodeTransaction
<1>6. \A plan \in CreateProposalReviewTransaction(a) : GoodPlan("ELA", plan)
  <2>1. GoodPlan("ELA", Plan(Types.crcProposalReview, "CRCProposalReview", 0, <<>>, FALSE))
        /\ GoodPlan("ELA", Plan(Types.crcProposalReview, "CRCProposalReview", 1, <<>>, FALSE))
    BY MainClasses, BarePlan
  <2>2. \A plan \in CreateProposalReviewTransaction(a) :
          \/ plan = Plan(Types.crcProposalReview, "CRCProposalReview", 0, <<>>, FALSE)
          \/ plan = Plan(Types.crcProposalReview, "CRCProposalReview", 1, <<>>, FALSE)
    BY DEF CreateProposalReviewTransaction, Plan
  <2>. QED BY <2>1, <2>2
<1>7. \A plan \in CreateProposalTrackingTransaction(a) : GoodPlan("ELA", plan)
  <2>1. GoodPlan("ELA", Plan(Types.crcProposalTracking, "CRCProposalTracking", 0, <<>>, FALSE))
        /\ GoodPlan("ELA", Plan(Types.crcProposalTracking, "CRCProposalTracking", 1, <<>>, FALSE))
    BY MainClasses, BarePlan
  <2>2. \A plan \in CreateProposalTrackingTransaction(a) :
          \/ plan = Plan(Types.crcProposalTracking, "CRCProposalTracking", 0, <<>>, FALSE)
          \/ plan = Plan(Types.crcProposalTracking, "CRCProposalTracking", 1, <<>>, FALSE)
    BY DEF CreateProposalTrackingTransaction, Plan
  <2>. QED BY <2>1, <2>2
<1>8. \A plan \in CreateProposalWithdrawTransaction(a) : GoodPlan("ELA", plan)
  BY MainClasses, BarePlan DEF CreateProposalWithdrawTransaction
<1>. QED BY <1>1, <1>2, <1>3, <1>4, <1>5, <1>6, <1>7, <1>8

LEMMA StakingPlans ==
  ASSUME NEW a
  PROVE  /\ \A plan \in CreateDPoSV2VoteTransaction(a) : GoodPlan("ELA", plan)
         /\ \A plan \in CreateDPoSV2ClaimRewardTransaction(a) : GoodPlan("ELA", plan)
         /\ \A plan \in CreateCancelVotesTransaction(a) : GoodPlan("ELA", plan)
         /\ \A plan \in CreateUnstakeTransaction(a) : GoodPlan("ELA", plan)
<1>1. /\ Types.Voting \in StakingTypes /\ Types.DposV2ClaimReward \in StakingTypes
      /\ Types.CancelVotes \in StakingTypes
  BY DEF StakingTypes
<1>2. /\ GoodClass("ELA", Types.Voting, "Voting")
      /\ GoodClass("ELA", Types.DposV2ClaimReward, "DPoSV2ClaimReward")
      /\ GoodClass("ELA", Types.CancelVotes, "CancelVotes") /\ GoodClass("ELA", Types.CancelVotes, "Unstake")
  BY <1>1, StakingClass DEF PlanClasses
<1>3. \A plan \in CreateDPoSV2VoteTransaction(a) : GoodPlan("ELA", plan)
  BY <1>2, BarePlan DEF CreateDPoSV2VoteTransaction
<1>4. \A plan \in CreateDPoSV2ClaimRewardTransaction(a) : GoodPlan("ELA", plan)
  BY <1>2, BarePlan DEF CreateDPoSV2ClaimRewardTransaction
<1>5. \A plan \in CreateCancelVotesTransaction(a) : GoodPlan("ELA", plan)
  BY <1>2, BarePlan DEF CreateCancelVotesTransaction
<1>6. \A plan \in CreateUnstakeTransaction(a) : GoodPlan("ELA", plan)
  BY <1>2, BarePlan DEF CreateUnstakeTransaction
<1>. QED BY <1>3, <1>4, <1>5, <1>6

LEMMA SidePlans ==
  ASSUME NEW a, a.amount \in Int
  PROVE  /\ \A plan \in CreateWithdrawTransaction(a) : GoodPlan("IDChain", plan)
         /\ \A plan \in CreateIDTransaction(a) : GoodPlan("IDChain", plan)
<1>1. \A plan \in CreateWithdrawTransaction(a) : GoodPlan("IDChain", plan)
  <2>1. a.amount + CrossChainFee \in Int
    BY AmountsAssumption
  <2>2. GoodPlan("IDChain", Plan(Types.transferCrossChainAsset, "TransferCrossChainAsset", 0,
                                 <<Payment(a.amount + CrossChainFee, "destroy")>>, FALSE))
    BY <2>1, SideClass, PaymentPlan
  <2>. QED BY <2>2 DEF CreateWithdrawTransaction
<1>2. \A plan \in CreateIDTransaction(a) : GoodPlan("IDChain", plan)
  <2> DEFINE type == IDTypes.didTransaction
             outputs(n) == [i \in 1..n |-> Payment(0, "did")]
             P(n) == Plan(type, "DIDInfo", 0, outputs(n), FALSE)
  <2>1. CreateIDTransaction(a) = IF a.fee < 0 THEN {} ELSE {P(n) : n \in 1..2}
    BY DEF CreateIDTransaction
  <2>2. \A n \in 1..2 : GoodOutputs("IDChain", type, outputs(n))
    BY SomePayments
  <2>3. GoodClass("IDChain", type, "DIDInfo")
    BY SideClass
  <2>4. ASSUME NEW n \in 1..2 PROVE GoodPlan("IDChain", P(n))
    <3>1. GoodOutputs("IDChain", type, outputs(n))
      BY <2>2
    <3> HIDE DEF outputs, type
    <3>. QED BY <2>3, <3>1 DEF GoodPlan, Plan
  <2> HIDE DEF P
  <2>. QED BY <2>1, <2>4
<1>. QED BY <1>1, <1>2

\* Whatever a Create function asks for can be read back, or is a staking transaction.
LEMMA AllPlans ==
  ASSUME NEW chain \in Chains, NEW a, a.amount \in Int, a.fee \in Int, NEW plan \in Plans(chain, a)
  PROVE  GoodPlan(chain, plan)
<1>1. CASE plan \in CreateTransaction(a)
  BY <1>1, TransferPlans
<1>2. CASE chain = "ELA" /\ plan \notin CreateTransaction(a)
  <2>1. \/ plan \in CreateDepositTransaction(a) \/ plan \in CreateRegisterProducerTransaction(a)
        \/ plan \in CreateRegisterCRTransaction(a) \/ plan \in CreateRetrieveDepositTransaction(a)
        \/ plan \in CreateRetrieveCRDepositTransaction(a) \/ plan \in CreateVoteTransaction(a)
        \/ plan \in CreateStakeTransaction(a) \/ plan \in CreateProposalTransactions(a)
        \/ plan \in CreateUpdateProducerTransaction(a) \/ plan \in CreateCancelProducerTransaction(a)
        \/ plan \in CreateUpdateCRTransaction(a) \/ plan \in CreateUnregisterCRTransaction(a)
        \/ plan \in CreateCRCouncilMemberClaimNodeTransaction(a)
        \/ plan \in CreateProposalReviewTransaction(a) \/ plan \in CreateProposalTrackingTransaction(a)
        \/ plan \in CreateProposalWithdrawTransaction(a) \/ plan \in CreateDPoSV2VoteTransaction(a)
        \/ plan \in CreateDPoSV2ClaimRewardTransaction(a) \/ plan \in CreateCancelVotesTransaction(a)
        \/ plan \in CreateUnstakeTransaction(a)
    BY <1>2 DEF Plans
  <2>. QED BY <1>2, <2>1, DepositPlans, PayingPlans, VotePlans, StakePlans, ProposalPlans, BarePlans,
              StakingPlans
<1>3. CASE chain = "IDChain" /\ plan \notin CreateTransaction(a)
  <2>1. plan \in CreateWithdrawTransaction(a) \/ plan \in CreateIDTransaction(a)
    BY <1>3 DEF Plans
  <2>. QED BY <1>3, <2>1, SidePlans
<1>. QED BY <1>1, <1>2, <1>3 DEF Chains

(***************************************************************************)
(* Reading what was written.                                               *)
(***************************************************************************)
\* An amount that was read is written as it was.
LEMMA GetUint64Again ==
  ASSUME NEW x \in Int
  PROVE  GetUint64(x) \in Int /\ GetUint64(GetUint64(x)) = GetUint64(x)
<1> DEFINE y == IF x < 0 THEN -x ELSE x
           m == y % Word
<1>1. m \in Nat /\ m < Word
  BY WordAssumption
<1> HIDE DEF m
<1>2. m % Word = m
  BY <1>1, WordAssumption
<1>3. GetUint64(m) = m
  BY <1>1, <1>2 DEF GetUint64
<1>. QED BY <1>1, <1>3 DEF GetUint64, m

\* The payloads, apart from the proposals.
LEMMA PlainPayloadRead ==
  ASSUME NEW class \in PlanClasses \cup OutputClasses, NEW v, NEW val, NEW t, IsLayout(t)
  PROVE  LET w == Written(Functions(class, v).Serialize, val)
             r == ReadPayload(class, Functions(class, v).Deserialize, w \o t)
         IN  /\ IsLayout(w)
             /\ r.result = "ok" /\ r.rest = t /\ PayloadBytes(r.payload, v) = w
<1> DEFINE l == Functions(class, v).Serialize
           w == Written(l, val)
           s == w \o t
           r == ReadPayload(class, l, s)
           back == ReadBack(l, s, MembersOf(l))
<1>1. Functions(class, v).Deserialize = l /\ Named(l)
  BY PlainFunctions DEF Symmetric
<1>2. class # "CRCProposal"
  BY DEF PlanClasses, OutputClasses
<1>3. IsLayout(w)
  BY <1>1, WrittenStream DEF Named
<1>4. /\ Fits(l, SubSeq(s, 1, Len(l))) /\ SubSeq(s, Len(l) + 1, Len(s)) = t
      /\ Written(l, back) = w
  BY <1>1, ReadBackWritten
<1>5. r = [result |-> "ok", payload |-> [class |-> class, val |-> back], rest |-> t]
  <2> HIDE DEF l, s
  <2>. QED BY <1>2, <1>4 DEF ReadPayload
<1>6. PayloadBytes([class |-> class, val |-> back], v) = w
  <2> HIDE DEF back, w
  <2>. QED BY <1>4 DEF PayloadBytes
<1> HIDE DEF l, w, r
<1>7. IsLayout(w) /\ r.result = "ok" /\ r.rest = t /\ PayloadBytes(r.payload, v) = w
  BY <1>3, <1>5, <1>6
<1>. QED BY <1>1, <1>7 DEF l, w, r

\* A proposal begins with its type, by which it is read.
LEMMA ProposalPayloadRead ==
  ASSUME NEW class \in SignedTypes, NEW v \in 0..1, NEW t, IsLayout(t)
  PROVE  LET w == PayloadBytes(NewPayload(class, v), v)
             r == ReadPayload("CRCProposal", Functions(class, v).Deserialize, w \o t)
         IN  /\ IsLayout(w)
             /\ w \o t # <<>> /\ (w \o t)[1] = <<"Uint16", class>>
             /\ r.result = "ok" /\ r.rest = t /\ PayloadBytes(r.payload, v) = w
<1> DEFINE l == Functions(class, v).Serialize
           val == NewPayload(class, v).val
           w == Written(l, val)
           s == w \o t
           back == ReadBack(l, s, MembersOf(l))
           r == ReadPayload("CRCProposal", l, s)
<1>1. Functions(class, v).Deserialize = l /\ Named(l) /\ Len(l) > 0 /\ l[1] = Uint16("type")
  BY ProposalFunctions, CRCProposalSymmetric DEF Symmetric
<1>2. PayloadBytes(NewPayload(class, v), v) = w
  BY DEF PayloadBytes, NewPayload
<1>3. val["type"] = class
  <2>1. l[1][2] = "type" /\ 1 \in DOMAIN l
    BY <1>1 DEF Uint16, Named, IsLayout
  <2>2. "type" \in MembersOf(l)
    BY <2>1 DEF MembersOf, Unset
  <2>3. class \in ProposalTypes
    BY DEF SignedTypes
  <2>4. val = [m \in MembersOf(l) |-> IF class \in ProposalTypes /\ m = "type" THEN class ELSE m]
    BY DEF NewPayload
  <2>. QED BY <2>2, <2>3, <2>4
<1>4. IsLayout(w) /\ Len(w) = Len(l) /\ Len(l) \in Nat /\ w[1] = <<"Uint16", class>>
  <2>1. 1 \in DOMAIN l /\ Len(l) \in Nat
    BY <1>1 DEF Named, IsLayout
  <2> HIDE DEF l, val
  <2>2. IsLayout(w) /\ Len(w) = Len(l) /\ w[1] = <<l[1][1], val[l[1][2]]>>
    BY <1>1, <2>1, WrittenStream DEF Named
  <2>3. l[1][1] = "Uint16" /\ l[1][2] = "type"
    BY <1>1 DEF Uint16
  <2>. QED BY <1>3, <2>1, <2>2, <2>3
<1>5. /\ Fits(l, SubSeq(s, 1, Len(l))) /\ SubSeq(s, Len(l) + 1, Len(s)) = t
      /\ Written(l, back) = w
  BY <1>1, ReadBackWritten
<1>6. s # <<>> /\ s[1] = <<"Uint16", class>>
  <2> HIDE DEF w, l
  <2>1. Len(s) > 0 /\ s[1] = w[1]
    BY <1>1, <1>4, LayoutConcat
  <2>. QED BY <1>4, <2>1
<1>7. r = [result |-> "ok", payload |-> [class |-> class, val |-> back], rest |-> t]
  <2> HIDE DEF l, s
  <2>1. s[1][2] = class
    BY <1>6
  <2>. QED BY <1>5, <2>1 DEF ReadPayload
<1>8. PayloadBytes([class |-> class, val |-> back], v) = w
  <2> HIDE DEF back, w
  <2>. QED BY <1>5 DEF PayloadBytes
<1> HIDE DEF l, val, w, s, back, r
<1>9. IsLayout(w) /\ r.result = "ok" /\ r.rest = t /\ PayloadBytes(r.payload, v) = w
  BY <1>4, <1>7, <1>8
<1>. QED BY <1>1, <1>2, <1>6, <1>9 DEF w, s, r, l

\* The calls before the payload.
LEMMA AfterOne ==
  ASSUME NEW a, NEW t, IsLayout(t)
  PROVE  LET s == <<a>> \o t
         IN  /\ IsLayout(s) /\ Len(s) = Len(t) + 1 /\ Len(t) \in Nat
             /\ s[1] = a /\ SubSeq(s, 2, Len(s)) = t
<1> DEFINE h == <<a>>
           s == h \o t
<1>1. IsLayout(h) /\ Len(h) = 1 /\ h[1] = a
  BY LayoutOfOne
<1> HIDE DEF h
<1>2. IsLayout(s) /\ Len(s) = Len(h) + Len(t) /\ Len(t) \in Nat /\ \A i \in 1..Len(h) : s[i] = h[i]
  BY <1>1, LayoutConcat
<1>3. SubSeq(s, Len(h) + 1, Len(s)) = t
  BY <1>1, SplitConcat
<1> HIDE DEF s
<1>4. SubSeq(s, 2, Len(s)) = t
  BY <1>1, <1>3
<1>5. Len(s) = Len(t) + 1 /\ s[1] = a
  BY <1>1, <1>2
<1>. QED BY <1>2, <1>4, <1>5 DEF s, h

LEMMA AfterTwo ==
  ASSUME NEW a, NEW b, NEW t, IsLayout(t)
  PROVE  LET s == <<a, b>> \o t
         IN  /\ IsLayout(s) /\ Len(s) = Len(t) + 2 /\ Len(t) \in Nat
             /\ s[1] = a /\ s[2] = b /\ SubSeq(s, 3, Len(s)) = t
<1> DEFINE h == <<a, b>>
           s == h \o t
<1>1. IsLayout(h) /\ Len(h) = 2 /\ h[1] = a /\ h[2] = b
  BY LayoutOfTwo
<1> HIDE DEF h
<1>2. /\ IsLayout(s) /\ Len(s) = Len(h) + Len(t) /\ Len(t) \in Nat
      /\ \A i \in 1..Len(h) : s[i] = h[i]
  BY <1>1, LayoutConcat
<1>3. SubSeq(s, Len(h) + 1, Len(s)) = t
  BY <1>1, SplitConcat
<1> HIDE DEF s
<1>4. SubSeq(s, 3, Len(s)) = t
  BY <1>1, <1>3
<1>5. Len(s) = Len(t) + 2 /\ s[1] = a /\ s[2] = b
  BY <1>1, <1>2
<1>. QED BY <1>2, <1>4, <1>5 DEF s, h

LEMMA AfterThree ==
  ASSUME NEW a, NEW b, NEW c, NEW t, IsLayout(t)
  PROVE  LET s == <<a, b>> \o (<<c>> \o t)
         IN  /\ IsLayout(s) /\ Len(s) = Len(t) + 3 /\ Len(t) \in Nat
             /\ s[1] = a /\ s[2] = b /\ s[3] = c /\ SubSeq(s, 4, Len(s)) = t
<1> DEFINE h == <<a, b, c>>
           r == <<c>> \o t
           s == <<a, b>> \o r
<1>1. IsLayout(h) /\ Len(h) = 3 /\ h[1] = a /\ h[2] = b /\ h[3] = c
  BY LayoutOfThree
<1>2. h = <<a, b>> \o <<c>>
  OBVIOUS
<1>3. IsLayout(<<a, b>>) /\ IsLayout(<<c>>)
  BY LayoutOfTwo, LayoutOfOne
<1>4. s = h \o t
  <2> DEFINE x == <<a, b>>
             y == <<c>>
  <2>1. IsLayout(x) /\ IsLayout(y) /\ h = x \o y /\ s = x \o (y \o t)
    BY <1>2, <1>3
  <2> HIDE DEF x, y, h, s
  <2>2. (x \o y) \o t = x \o (y \o t)
    BY <2>1, ConcatAssoc
  <2>. QED BY <2>1, <2>2
<1> HIDE DEF h, s
<1>5. /\ IsLayout(s) /\ Len(s) = Len(h) + Len(t) /\ Len(t) \in Nat
      /\ \A i \in 1..Len(h) : s[i] = h[i]
  BY <1>1, <1>4, LayoutConcat
<1>6. SubSeq(s, Len(h) + 1, Len(s)) = t
  BY <1>1, <1>4, SplitConcat
<1>7. SubSeq(s, 4, Len(s)) = t
  BY <1>1, <1>6
<1>8. Len(s) = Len(t) + 3 /\ s[1] = a /\ s[2] = b /\ s[3] = c
  BY <1>1, <1>5
<1>. QED BY <1>5, <1>7, <1>8 DEF s

LEMMA ConcatNone ==
  ASSUME NEW s, IsLayout(s)
  PROVE  s \o <<>> = s
BY ConcatEmptySeq DEF IsLayout

LEMMA WholePayloadRead ==
  ASSUME NEW class \in OutputClasses, NEW val
  PROVE  LET w == Written(Functions(class, 0).Serialize, val)
             r == ReadPayload(class, Functions(class, 0).Deserialize, w)
         IN  IsLayout(w) /\ r.result = "ok" /\ r.rest = <<>> /\ PayloadBytes(r.payload, 0) = w
<1> DEFINE v == 0
           w == Written(Functions(class, v).Serialize, val)
           none == <<>>
           q == ReadPayload(class, Functions(class, v).Deserialize, w \o none)
<1>1. IsLayout(none)
  BY LayoutOfNone
<1> HIDE DEF none, v
<1>2. IsLayout(w) /\ q.result = "ok" /\ q.rest = none /\ PayloadBytes(q.payload, v) = w
  BY <1>1, PlainPayloadRead
<1> HIDE DEF w
<1>3. w \o none = w
  BY <1>2, ConcatNone DEF none
<1>. QED BY <1>2, <1>3 DEF none, w, v

\* An output is read as one that is written with the same bytes.  On the main chain.
LEMMA MainOutputRead ==
  ASSUME NEW type, ~IsStaking("ELA", type), NEW o, GoodOutput("ELA", type, o)
  PROVE  LET s == OutputSerialize(TransactionOutput(o), V09)
             d == OutputDeserialize(s, V09)
         IN  d.result = "ok" /\ OutputSerialize(d.output, V09) = s
<1> DEFINE w == Written(Functions(o.class, 0).Serialize, NewPayload(o.class, 0).val)
           a == <<"Uint64", GetUint64(o.amount)>>
           b == <<"Hash168", o.address>>
           c == <<"Uint8", o.type>>
           s == <<a, b>> \o (<<c>> \o w)
           r == ReadPayload(o.class, Functions(o.class, 0).Deserialize, w)
           out == [amount |-> GetUint64(o.amount), address |-> o.address, type |-> o.type,
                   payload |-> r.payload]
<1>1. o.class \in OutputClasses /\ o.amount \in Int /\ GeneratePayload(o.type) = o.class
  BY DEF GoodOutput
<1>2. OutputSerialize(TransactionOutput(o), V09) = s
  BY DEF OutputSerialize, TransactionOutput, PayloadBytes, NewPayload, When, V09
<1>3. IsLayout(w) /\ r.result = "ok" /\ r.rest = <<>> /\ PayloadBytes(r.payload, 0) = w
  BY <1>1, WholePayloadRead
<1>4. o.class # Null
  BY <1>1 DEF OutputClasses, Null
<1> HIDE DEF w, a, b, c, r
<1>5. /\ Len(s) = Len(w) + 3 /\ Len(w) \in Nat
      /\ s[1] = a /\ s[2] = b /\ s[3] = c /\ SubSeq(s, 4, Len(s)) = w
  BY <1>3, AfterThree
<1> HIDE DEF s
<1>6. s[1][2] = GetUint64(o.amount) /\ s[2][2] = o.address /\ s[3][2] = o.type
  BY <1>5 DEF a, b, c
<1>7. OutputPayload(GeneratePayload(o.type), w) = r
  BY <1>1, <1>4 DEF OutputPayload, r
<1>8. OutputDeserialize(s, V09) = OutputOf(s, o.type, r)
  <2>1. OutputPayload(GeneratePayload(s[3][2]), SubSeq(s, 3 + 1, Len(s))) = r
    <3>1. SubSeq(s, 3 + 1, Len(s)) = w
      BY <1>5
    <3>. QED BY <1>6, <1>7, <3>1, Zenon
  <2>2. ~(Len(s) < 3) /\ ~(V09 < V09)
    BY <1>5 DEF V09
  <2>. QED BY <1>6, <2>1, <2>2 DEF OutputDeserialize
<1>9. OutputOf(s, o.type, r) = [result |-> "ok", output |-> out]
  BY <1>3, <1>6 DEF OutputOf
<1>10. OutputSerialize(out, V09) = s
  <2>1. GetUint64(out.amount) = GetUint64(o.amount)
    BY <1>1, GetUint64Again
  <2>2. out.address = o.address /\ out.type = o.type /\ out.payload = r.payload
    OBVIOUS
  <2> HIDE DEF out
  <2>. QED BY <1>3, <2>1, <2>2 DEF OutputSerialize, When, V09, s, a, b, c
<1>. QED BY <1>2, <1>8, <1>9, <1>10

\* On a side chain, where only payments occur, and nothing but these two members is
\* written.
LEMMA SideOutputRead ==
  ASSUME NEW type, NEW o, GoodOutput("IDChain", type, o)
  PROVE  LET s == OutputSerialize(TransactionOutput(o), 0)
             d == OutputDeserialize(s, 0)
         IN  d.result = "ok" /\ OutputSerialize(d.output, 0) = s
<1> DEFINE c == "PayloadDefault"
           none == <<>>
           a == <<"Uint64", GetUint64(o.amount)>>
           b == <<"Hash168", o.address>>
           s == <<a, b>> \o none
           r == ReadPayload(c, Functions(c, 0).Deserialize, none)
           out == [amount |-> GetUint64(o.amount), address |-> o.address, type |-> OutputTypes.Default,
                   payload |-> r.payload]
<1>1. o.amount \in Int
  BY DEF GoodOutput
<1>2. OutputSerialize(TransactionOutput(o), 0) = s
  BY DEF OutputSerialize, TransactionOutput, When, V09
<1>3. r.result = "ok" /\ r.rest = <<>>
  <2> DEFINE val == [m \in {} |-> m]
             w == Written(Functions(c, 0).Serialize, val)
  <2>1. c \in OutputClasses
    BY DEF OutputClasses
  <2>2. LET q == ReadPayload(c, Functions(c, 0).Deserialize, w)
        IN  q.result = "ok" /\ q.rest = <<>>
    BY <2>1, WholePayloadRead
  <2>3. w = none
    <3>1. Functions(c, 0).Serialize = <<>>
      BY DEF Functions, ProposalTypes, UpgradeTypes, PayloadDefault, Empty
    <3>. QED BY <3>1 DEF Written
  <2> HIDE DEF w, none
  <2>. QED BY <2>2, <2>3
<1>4. IsLayout(none)
  BY LayoutOfNone
<1>5. none = <<>> /\ Len(none) = 0
  OBVIOUS
<1> HIDE DEF a, b, r, none
<1>6. Len(s) = Len(none) + 2 /\ s[1] = a /\ s[2] = b /\ SubSeq(s, 3, Len(s)) = none
  BY <1>4, AfterTwo
<1> HIDE DEF s
<1>7. s[1][2] = GetUint64(o.amount) /\ s[2][2] = o.address
  BY <1>6 DEF a, b
<1>8. OutputPayload(GeneratePayload(OutputTypes.Default), none) = r
  BY DEF OutputPayload, GeneratePayload, OutputTypes, Null, r
<1>9. OutputDeserialize(s, 0) = OutputOf(s, OutputTypes.Default, r)
  <2>1. SubSeq(s, 2 + 1, Len(s)) = none
    BY <1>6
  <2>2. OutputPayload(GeneratePayload(OutputTypes.Default), SubSeq(s, 2 + 1, Len(s))) = r
    BY <1>8, <2>1, Zenon
  <2>3. ~(Len(s) < 2) /\ 0 < V09
    BY <1>5, <1>6 DEF V09
  <2>. QED BY <2>2, <2>3 DEF OutputDeserialize
<1>10. OutputOf(s, OutputTypes.Default, r) = [result |-> "ok", output |-> out]
  BY <1>3, <1>7 DEF OutputOf
<1>11. OutputSerialize(out, 0) = s
  <2>1. GetUint64(out.amount) = GetUint64(o.amount)
    BY <1>1, GetUint64Again
  <2>2. out.address = o.address
    OBVIOUS
  <2> HIDE DEF out
  <2>. QED BY <2>1, <2>2 DEF OutputSerialize, When, V09, s, a, b, none
<1>. QED BY <1>2, <1>9, <1>10, <1>11

VersionOf(chain) == IF chain = "ELA" THEN V09 ELSE 0

LEMMA OutputRead ==
  ASSUME NEW chain \in Chains, NEW type, ~IsStaking(chain, type), NEW o, GoodOutput(chain, type, o)
  PROVE  LET s == OutputSerialize(TransactionOutput(o), VersionOf(chain))
             d == OutputDeserialize(s, VersionOf(chain))
         IN  d.result = "ok" /\ OutputSerialize(d.output, VersionOf(chain)) = s
<1>1. CASE chain = "ELA"
  BY <1>1, MainOutputRead DEF VersionOf
<1>2. CASE chain = "IDChain"
  BY <1>2, SideOutputRead DEF VersionOf
<1>. QED BY <1>1, <1>2 DEF Chains

TransactionFields ==
  {"version", "type", "payloadVersion", "payload", "attributes", "inputs", "outputs", "programs"}

\* What comes after the payload, when every output can be read.
LEMMA TailRead ==
  ASSUME NEW h, NEW pv, NEW p, NEW attributes, NEW inputs, NEW os, NEW programs,
         p.result = "ok",
         p.rest = << <<"Attributes", attributes>>, <<"Inputs", inputs>>, <<"Outputs", os>>,
                     <<"Programs", programs>> >>,
         \A i \in DOMAIN os :
           LET d == OutputDeserialize(os[i], h.version)
           IN  d.result = "ok" /\ OutputSerialize(d.output, h.version) = os[i]
  PROVE  LET d == DeserializePayload(h, pv, p)
         IN  /\ d.result = "ok" /\ DOMAIN d.tx = TransactionFields
             /\ d.tx.version = h.version /\ d.tx.type = h.type /\ d.tx.payloadVersion = pv
             /\ d.tx.payload = p.payload /\ d.tx.attributes = attributes /\ d.tx.inputs = inputs
             /\ d.tx.programs = programs
             /\ [i \in DOMAIN d.tx.outputs |-> OutputSerialize(d.tx.outputs[i], h.version)]
                  = [i \in DOMAIN os |-> os[i]]
<1> DEFINE read == [i \in DOMAIN os |-> OutputDeserialize(os[i], h.version)]
           outs == [i \in DOMAIN read |-> read[i].output]
           tx == [version |-> h.version, type |-> h.type, payloadVersion |-> pv,
                  payload |-> p.payload, attributes |-> attributes, inputs |-> inputs,
                  outputs |-> outs, programs |-> programs]
<1>1. /\ p.rest[1][2] = attributes /\ p.rest[2][2] = inputs /\ p.rest[3][2] = os /\ p.rest[4][2] = programs
  OBVIOUS
<1>2. [i \in DOMAIN p.rest |-> p.rest[i][1]] = <<"Attributes", "Inputs", "Outputs", "Programs">>
  OBVIOUS
<1>3. DeserializePayload(h, pv, p) = DeserializeRest(h, pv, p, read)
  <2>1. DeserializePayload(h, pv, p) =
          DeserializeRest(h, pv, p, [i \in DOMAIN p.rest[3][2] |-> OutputDeserialize(p.rest[3][2][i], h.version)])
    BY <1>2, Zenon DEF DeserializePayload
  <2>. QED BY <1>1, <2>1, Zenon
<1>4. \A i \in DOMAIN read : read[i].result = "ok" /\ OutputSerialize(read[i].output, h.version) = os[i]
  OBVIOUS
<1>5. DOMAIN read = DOMAIN os
  OBVIOUS
<1> HIDE DEF read
<1>6. {read[i].result : i \in DOMAIN read} \subseteq {"ok"}
  BY <1>4
<1>7. DeserializeRest(h, pv, p, read) = [result |-> "ok", tx |-> tx]
  BY <1>1, <1>6 DEF DeserializeRest
<1>8. [i \in DOMAIN outs |-> OutputSerialize(outs[i], h.version)] = [i \in DOMAIN os |-> os[i]]
  BY <1>4, <1>5
<1> HIDE DEF outs
<1>9. /\ tx.version = h.version /\ tx.type = h.type /\ tx.payloadVersion = pv
      /\ tx.payload = p.payload /\ tx.attributes = attributes /\ tx.inputs = inputs
      /\ tx.programs = programs /\ tx.outputs = outs
  OBVIOUS
<1>10. DOMAIN tx = TransactionFields
  BY DEF TransactionFields
<1> HIDE DEF tx
<1>. QED BY <1>3, <1>7, <1>8, <1>9, <1>10

(***************************************************************************)
(* Transactions.                                                           *)
(***************************************************************************)
WellMade(chain, tx) ==
  /\ chain \in Chains /\ tx.version = VersionOf(chain) /\ tx.payloadVersion \in 0..1
  /\ \E class : GoodClass(chain, tx.type, class) /\ tx.payload = NewPayload(class, tx.payloadVersion)
  /\ \E out : GoodOutputs(chain, tx.type, out) /\ tx.outputs = [i \in DOMAIN out |-> TransactionOutput(out[i])]

\* The bytes of the outputs, of the payload, and what follows these.
OutputsBytes(tx) == [i \in DOMAIN tx.outputs |-> OutputSerialize(tx.outputs[i], tx.version)]
OwnBytes(tx) == PayloadBytes(tx.payload, tx.payloadVersion)
TailBytes(tx) ==
  << <<"Attributes", tx.attributes>>, <<"Inputs", tx.inputs>>, <<"Outputs", OutputsBytes(tx)>> >>

LEMMA OwnBytesStream ==
  ASSUME NEW chain, NEW tx, WellMade(chain, tx)
  PROVE  IsLayout(OwnBytes(tx))
<1> DEFINE v == tx.payloadVersion
<1>1. PICK class : GoodClass(chain, tx.type, class) /\ tx.payload = NewPayload(class, v)
  BY DEF WellMade
<1>2. v \in 0..1
  BY DEF WellMade
<1>3. OwnBytes(tx) = PayloadBytes(NewPayload(class, v), v)
  BY <1>1 DEF OwnBytes
<1>4. PayloadBytes(NewPayload(class, v), v) = Written(Functions(class, v).Serialize, NewPayload(class, v).val)
  BY DEF PayloadBytes, NewPayload
<1> HIDE DEF v
<1>5. Named(Functions(class, v).Serialize)
  <2>1. CASE class \in PlanClasses
    BY <2>1, PlainFunctions DEF Symmetric
  <2>2. CASE class \in SignedTypes
    BY <1>2, <2>2, ProposalFunctions, CRCProposalSymmetric DEF Symmetric
  <2>. QED BY <1>1, <2>1, <2>2 DEF GoodClass
<1>6. IsLayout(Written(Functions(class, v).Serialize, NewPayload(class, v).val))
  BY <1>5, WrittenStream DEF Named
<1>. QED BY <1>3, <1>4, <1>6

LEMMA OneBeforeTwo ==
  ASSUME NEW a, NEW b, NEW c
  PROVE  <<a, b, c>> = <<a>> \o <<b, c>>
OBVIOUS

\* The parts of the bytes.
LEMMA UnsignedParts ==
  ASSUME NEW chain, NEW tx, WellMade(chain, tx)
  PROVE  LET t  == <<"Uint8", tx.type>>
             pv == <<"Uint8", tx.payloadVersion>>
             v  == <<"Uint8", tx.version>>
             r  == OwnBytes(tx) \o TailBytes(tx)
         IN  /\ IsLayout(TailBytes(tx)) /\ IsLayout(SerializeUnsigned(tx)) /\ IsLayout(r)
             /\ chain = "ELA" => SerializeUnsigned(tx) = <<v, t>> \o (<<pv>> \o r)
             /\ chain # "ELA" => SerializeUnsigned(tx) = <<t>> \o (<<pv>> \o r)
<1> DEFINE t  == <<"Uint8", tx.type>>
           pv == <<"Uint8", tx.payloadVersion>>
           v  == <<"Uint8", tx.version>>
           w == OwnBytes(tx)
           tail == TailBytes(tx)
           r == w \o tail
           front == When(tx.version >= V09, <<v>>)
           s == SerializeUnsigned(tx)
<1>1. IsLayout(w)
  BY OwnBytesStream
<1>2. IsLayout(tail)
  BY LayoutOfThree DEF TailBytes
<1>3. s = ((front \o <<t, pv>>) \o w) \o tail
  BY DEF SerializeUnsigned, OwnBytes, TailBytes, OutputsBytes
<1>4. tx.version = VersionOf(chain)
  BY DEF WellMade
<1> HIDE DEF w, tail, s
<1>5. IsLayout(r)
  BY <1>1, <1>2, LayoutConcat
<1>6. ASSUME NEW x, IsLayout(x)
      PROVE  (x \o w) \o tail = x \o r /\ IsLayout(x \o r)
  BY <1>1, <1>2, <1>5, <1>6, ConcatAssoc, LayoutConcat
<1> HIDE DEF r
<1>7. ASSUME NEW x, IsLayout(x), NEW a
      PROVE  (x \o <<a>>) \o r = x \o (<<a>> \o r)
  <2> DEFINE y == <<a>>
  <2>1. IsLayout(y)
    BY LayoutOfOne
  <2> HIDE DEF y
  <2>2. (x \o y) \o r = x \o (y \o r)
    BY <1>5, <1>7, <2>1, ConcatAssoc
  <2>. QED BY <2>2 DEF y
<1>8. CASE chain = "ELA"
  <2>1. front \o <<t, pv>> = <<v, t, pv>>
    <3>1. front = <<v>>
      BY <1>4, <1>8 DEF VersionOf, V09, When
    <3> HIDE DEF v, t, pv, front
    <3>2. <<v>> \o <<t, pv>> = <<v, t, pv>>
      BY OneBeforeTwo
    <3>. QED BY <3>1, <3>2, Zenon
  <2>2. <<v, t, pv>> = <<v, t>> \o <<pv>>
    OBVIOUS
  <2>3. IsLayout(<<v, t, pv>>) /\ IsLayout(<<v, t>>)
    BY LayoutOfThree, LayoutOfTwo
  <2> HIDE DEF t, pv, v
  <2>4. s = <<v, t, pv>> \o r /\ IsLayout(s)
    BY <1>3, <1>6, <2>1, <2>3
  <2>5. s = <<v, t>> \o (<<pv>> \o r)
    BY <1>7, <2>2, <2>3, <2>4
  <2>. QED BY <1>2, <1>5, <1>8, <2>4, <2>5 DEF s, tail, r, w, t, pv, v
<1>9. CASE chain # "ELA"
  <2>1. front \o <<t, pv>> = <<t, pv>>
    BY <1>4, <1>9 DEF VersionOf, V09, When
  <2>2. <<t, pv>> = <<t>> \o <<pv>>
    OBVIOUS
  <2>3. IsLayout(<<t, pv>>) /\ IsLayout(<<t>>)
    BY LayoutOfTwo, LayoutOfOne
  <2> HIDE DEF t, pv, v
  <2>4. s = <<t, pv>> \o r /\ IsLayout(s)
    BY <1>3, <1>6, <2>1, <2>3
  <2>5. s = <<t>> \o (<<pv>> \o r)
    BY <1>7, <2>2, <2>3, <2>4
  <2>. QED BY <1>2, <1>5, <1>9, <2>4, <2>5 DEF s, tail, r, w, t, pv, v
<1>. QED BY <1>8, <1>9

\* A transaction with some programs.
WithPrograms(tx, ps) == SerializeUnsigned(tx) \o << <<"Programs", ps>> >>

\* Its type and version are read, and what is left is the payload, the attributes, the
\* inputs, the outputs and the programs.
LEMMA HeadRead ==
  ASSUME NEW chain, NEW tx, WellMade(chain, tx), NEW ps
  PROVE  LET h == DeserializeType(chain, WithPrograms(tx, ps))
         IN  /\ h.version = tx.version /\ h.type = tx.type /\ h.rest[1][2] = tx.payloadVersion
             /\ SubSeq(h.rest, 2, Len(h.rest)) =
                  OwnBytes(tx) \o << <<"Attributes", tx.attributes>>, <<"Inputs", tx.inputs>>,
                                     <<"Outputs", OutputsBytes(tx)>>, <<"Programs", ps>> >>
<1> DEFINE t  == <<"Uint8", tx.type>>
           pv == <<"Uint8", tx.payloadVersion>>
           v  == <<"Uint8", tx.version>>
           w == OwnBytes(tx)
           tail == TailBytes(tx)
           r == w \o tail
           p == <<"Programs", ps>>
           q == <<p>>
           all == w \o (tail \o q)
           rest == <<pv>> \o all
           s == WithPrograms(tx, ps)
           h == DeserializeType(chain, s)
           four == << <<"Attributes", tx.attributes>>, <<"Inputs", tx.inputs>>,
                      <<"Outputs", OutputsBytes(tx)>>, <<"Programs", ps>> >>
<1>1. IsLayout(w) /\ IsLayout(tail) /\ IsLayout(r) /\ IsLayout(q) /\ IsLayout(<<pv>>)
  BY OwnBytesStream, UnsignedParts, LayoutOfOne
<1>2. /\ chain = "ELA" => SerializeUnsigned(tx) = <<v, t>> \o (<<pv>> \o r)
      /\ chain # "ELA" => SerializeUnsigned(tx) = <<t>> \o (<<pv>> \o r)
  BY UnsignedParts
<1>3. four = tail \o q
  <2>1. ASSUME NEW a, NEW b, NEW c, NEW d PROVE <<a, b, c, d>> = <<a, b, c>> \o <<d>>
    OBVIOUS
  <2> DEFINE a == <<"Attributes", tx.attributes>>
             b == <<"Inputs", tx.inputs>>
             c == <<"Outputs", OutputsBytes(tx)>>
  <2>2. four = <<a, b, c, p>> /\ tail = <<a, b, c>>
    BY DEF TailBytes
  <2> HIDE DEF a, b, c, p, four, tail
  <2>3. <<a, b, c, p>> = <<a, b, c>> \o <<p>>
    BY <2>1
  <2>. QED BY <2>2, <2>3, Zenon
<1>4. s = SerializeUnsigned(tx) \o q
  BY DEF WithPrograms
<1>5. IsLayout(<<v, t>>) /\ IsLayout(<<t>>)
  BY LayoutOfOne, LayoutOfTwo
<1>6. v[2] = tx.version /\ t[2] = tx.type /\ pv[2] = tx.payloadVersion
  OBVIOUS
<1>7. tx.version = VersionOf(chain)
  BY DEF WellMade
<1> HIDE DEF w, tail, q, pv, v, t, s, four
<1>8. r \o q = all /\ IsLayout(all)
  BY <1>1, ConcatAssoc, LayoutConcat
<1>9. IsLayout(<<pv>> \o r)
  BY <1>1, LayoutConcat
<1> HIDE DEF r, all
<1>10. (<<pv>> \o r) \o q = rest
  <2> DEFINE x == <<pv>>
  <2> HIDE DEF x
  <2>1. IsLayout(x)
    BY <1>1 DEF x
  <2>2. (x \o r) \o q = x \o (r \o q)
    BY <1>1, <2>1, ConcatAssoc
  <2>. QED BY <1>8, <2>2 DEF x
<1>11. IsLayout(rest) /\ rest[1] = pv /\ SubSeq(rest, 2, Len(rest)) = all
  BY <1>8, AfterOne
<1> HIDE DEF rest
<1>12. ASSUME NEW x, IsLayout(x)
       PROVE  (x \o (<<pv>> \o r)) \o q = x \o rest
  <2> DEFINE y == <<pv>> \o r
  <2>1. IsLayout(y) /\ y \o q = rest
    BY <1>9, <1>10
  <2> HIDE DEF y
  <2>0. IsLayout(x) /\ IsLayout(q) /\ IsLayout(y)
    BY <1>1, <1>12, <2>1
  <2>2. (x \o y) \o q = x \o (y \o q)
    BY <2>0, ConcatAssoc
  <2>. QED BY <2>1, <2>2 DEF y
<1>13. h.version = tx.version /\ h.type = tx.type /\ h.rest = rest
  <2>1. CASE chain = "ELA"
    <3>1. s = <<v, t>> \o rest
      BY <1>2, <1>4, <1>5, <1>12, <2>1
    <3>2. s[1] = v /\ s[2] = t /\ SubSeq(s, 3, Len(s)) = rest
      BY <1>11, <3>1, AfterTwo
    <3>3. s[1][2] >= V09
      BY <1>6, <1>7, <2>1, <3>2 DEF VersionOf, V09
    <3>. QED BY <1>6, <2>1, <3>2, <3>3 DEF DeserializeType
  <2>2. CASE chain # "ELA"
    <3>1. s = <<t>> \o rest
      BY <1>2, <1>4, <1>5, <1>12, <2>2
    <3>2. s[1] = t /\ SubSeq(s, 2, Len(s)) = rest
      BY <1>11, <3>1, AfterOne
    <3>. QED BY <1>6, <1>7, <2>2, <3>2 DEF DeserializeType, VersionOf
  <2>. QED BY <2>1, <2>2
<1>14. SubSeq(h.rest, 2, Len(h.rest)) = w \o four /\ h.rest[1][2] = tx.payloadVersion
  BY <1>3, <1>6, <1>11, <1>13 DEF all
<1>. QED BY <1>13, <1>14 DEF s, w, four

\* The payload is read with the class that the type of the transaction has.
LEMMA PayloadRead ==
  ASSUME NEW chain, NEW tx, WellMade(chain, tx), ~IsStaking(chain, tx.type), NEW t, IsLayout(t)
  PROVE  LET p == TransactionPayload(InitPayload(chain, tx.type), tx.payloadVersion, OwnBytes(tx) \o t)
         IN  p.result = "ok" /\ p.rest = t /\ PayloadBytes(p.payload, tx.payloadVersion) = OwnBytes(tx)
<1> DEFINE v == tx.payloadVersion
           w == OwnBytes(tx)
           s == w \o t
           p == TransactionPayload(InitPayload(chain, tx.type), v, s)
<1>1. PICK class : GoodClass(chain, tx.type, class) /\ tx.payload = NewPayload(class, v)
  BY DEF WellMade
<1>2. v \in 0..1
  BY DEF WellMade
<1>3. w = PayloadBytes(NewPayload(class, v), v)
  BY <1>1 DEF OwnBytes
<1>4. InitPayload(chain, tx.type) = IF class \in SignedTypes THEN "CRCProposal" ELSE class
  BY <1>1 DEF GoodClass
<1> HIDE DEF v
<1>5. CASE class \in SignedTypes
  <2> DEFINE r == ReadPayload("CRCProposal", Functions(class, v).Deserialize, s)
  <2>1. /\ s # <<>> /\ s[1] = <<"Uint16", class>>
        /\ r.result = "ok" /\ r.rest = t /\ PayloadBytes(r.payload, v) = w
    BY <1>2, <1>3, <1>5, ProposalPayloadRead
  <2> HIDE DEF s, r
  <2>2. s[1][1] = "Uint16" /\ s[1][2] = class
    BY <2>1
  <2>3. p = r
    BY <1>4, <1>5, <2>1, <2>2 DEF TransactionPayload, Null, r
  <2> HIDE DEF p, w
  <2>4. p.result = "ok" /\ p.rest = t /\ PayloadBytes(p.payload, v) = w
    BY <2>1, <2>3
  <2>. QED BY <2>4 DEF p, s, w, v
<1>6. CASE class \in PlanClasses
  <2> DEFINE r == ReadPayload(class, Functions(class, v).Deserialize, s)
             val == NewPayload(class, v).val
  <2>1. w = Written(Functions(class, v).Serialize, val)
    BY <1>3 DEF PayloadBytes, NewPayload
  <2> HIDE DEF val, w
  <2>2. r.result = "ok" /\ r.rest = t /\ PayloadBytes(r.payload, v) = w
    BY <1>6, <2>1, PlainPayloadRead
  <2>3. class # "CRCProposal" /\ class # Null /\ class \notin SignedTypes
    BY <1>6, PlainIsNotSigned DEF PlanClasses, Null
  <2> HIDE DEF s, r
  <2>4. p = r
    BY <1>4, <2>3 DEF TransactionPayload, r
  <2> HIDE DEF p
  <2>5. p.result = "ok" /\ p.rest = t /\ PayloadBytes(p.payload, v) = w
    BY <2>2, <2>4
  <2>. QED BY <2>5 DEF p, s, w, v
<1>. QED BY <1>1, <1>5, <1>6 DEF GoodClass

\* Every output of a transaction that is not for staking is read.
LEMMA OutputsRead ==
  ASSUME NEW chain, NEW tx, WellMade(chain, tx), ~IsStaking(chain, tx.type)
  PROVE  \A i \in DOMAIN OutputsBytes(tx) :
           LET d == OutputDeserialize(OutputsBytes(tx)[i], tx.version)
           IN  d.result = "ok" /\ OutputSerialize(d.output, tx.version) = OutputsBytes(tx)[i]
<1>1. PICK out : /\ GoodOutputs(chain, tx.type, out)
                 /\ tx.outputs = [i \in DOMAIN out |-> TransactionOutput(out[i])]
  BY DEF WellMade
<1>2. tx.version = VersionOf(chain) /\ chain \in Chains
  BY DEF WellMade
<1>3. DOMAIN OutputsBytes(tx) = DOMAIN out
  BY <1>1 DEF OutputsBytes
<1>4. ASSUME NEW i \in DOMAIN out
      PROVE  OutputsBytes(tx)[i] = OutputSerialize(TransactionOutput(out[i]), VersionOf(chain))
  BY <1>1, <1>2 DEF OutputsBytes
<1>5. \A i \in DOMAIN out : GoodOutput(chain, tx.type, out[i])
  BY <1>1 DEF GoodOutputs
<1>6. ASSUME NEW i \in DOMAIN out
      PROVE  LET s == OutputSerialize(TransactionOutput(out[i]), VersionOf(chain))
                 d == OutputDeserialize(s, VersionOf(chain))
             IN  d.result = "ok" /\ OutputSerialize(d.output, VersionOf(chain)) = s
  BY <1>2, <1>5, OutputRead
<1>. QED BY <1>2, <1>3, <1>4, <1>6

\* Decoding.  A staking transaction is refused.
LEMMA StakingIsRefused ==
  ASSUME NEW chain, NEW tx, WellMade(chain, tx), IsStaking(chain, tx.type), NEW ps
  PROVE  Deserialize(chain, WithPrograms(tx, ps)).result = "refused"
<1>1. InitPayload(chain, tx.type) = Null
  BY DEF WellMade, GoodClass
<1>2. DeserializeType(chain, WithPrograms(tx, ps)).type = tx.type
  <2> DEFINE h == DeserializeType(chain, WithPrograms(tx, ps))
  <2>1. /\ h.version = tx.version /\ h.type = tx.type /\ h.rest[1][2] = tx.payloadVersion
        /\ SubSeq(h.rest, 2, Len(h.rest)) =
             OwnBytes(tx) \o << <<"Attributes", tx.attributes>>, <<"Inputs", tx.inputs>>,
                                <<"Outputs", OutputsBytes(tx)>>, <<"Programs", ps>> >>
    BY HeadRead
  <2>. QED BY <2>1
<1>3. \A v, s : TransactionPayload(Null, v, s) = [result |-> "refused"]
  BY DEF TransactionPayload, Null
<1>4. \A h, v : DeserializePayload(h, v, [result |-> "refused"]) = [result |-> "refused"]
  BY DEF DeserializePayload
<1>5. Deserialize(chain, WithPrograms(tx, ps)) = [result |-> "refused"]
  BY <1>1, <1>2, <1>3, <1>4, Zenon DEF Deserialize
<1>. QED BY <1>5

\* Any other one gives an object with the same bytes and programs.
LEMMA OthersAreDecoded ==
  ASSUME NEW chain, NEW tx, WellMade(chain, tx), ~IsStaking(chain, tx.type), NEW ps
  PROVE  LET d == Deserialize(chain, WithPrograms(tx, ps))
         IN  /\ d.result = "ok" /\ DOMAIN d.tx = TransactionFields /\ d.tx.programs = ps
             /\ SerializeUnsigned(d.tx) = SerializeUnsigned(tx)
<1> DEFINE s == WithPrograms(tx, ps)
           h == DeserializeType(chain, s)
           os == OutputsBytes(tx)
           four == << <<"Attributes", tx.attributes>>, <<"Inputs", tx.inputs>>, <<"Outputs", os>>,
                      <<"Programs", ps>> >>
           p == TransactionPayload(InitPayload(chain, tx.type), tx.payloadVersion, OwnBytes(tx) \o four)
           d == DeserializePayload(h, tx.payloadVersion, p)
<1>1. /\ h.version = tx.version /\ h.type = tx.type /\ h.rest[1][2] = tx.payloadVersion
      /\ SubSeq(h.rest, 2, Len(h.rest)) = OwnBytes(tx) \o four
  BY HeadRead
<1>2. Deserialize(chain, s) = d
  <2> HIDE DEF s, four
  <2>. QED BY <1>1, Zenon DEF Deserialize
<1>3. IsLayout(four)
  BY LayoutOfFour
<1>4. p.result = "ok" /\ p.rest = four /\ PayloadBytes(p.payload, tx.payloadVersion) = OwnBytes(tx)
  <2> HIDE DEF four
  <2>. QED BY <1>3, PayloadRead
<1>5. \A i \in DOMAIN os :
        LET e == OutputDeserialize(os[i], h.version)
        IN  e.result = "ok" /\ OutputSerialize(e.output, h.version) = os[i]
  BY <1>1, OutputsRead
<1> HIDE DEF h, p, s
<1>6. /\ d.result = "ok" /\ DOMAIN d.tx = TransactionFields
      /\ d.tx.version = h.version /\ d.tx.type = h.type /\ d.tx.payloadVersion = tx.payloadVersion
      /\ d.tx.payload = p.payload /\ d.tx.attributes = tx.attributes /\ d.tx.inputs = tx.inputs
      /\ d.tx.programs = ps
      /\ [i \in DOMAIN d.tx.outputs |-> OutputSerialize(d.tx.outputs[i], h.version)] = [i \in DOMAIN os |-> os[i]]
  <2> HIDE DEF os
  <2>. QED BY <1>4, <1>5, TailRead
<1>7. [i \in DOMAIN os |-> os[i]] = os
  BY DEF OutputsBytes
<1> HIDE DEF d
<1>8. SerializeUnsigned(d.tx) = SerializeUnsigned(tx)
  BY <1>1, <1>4, <1>6, <1>7 DEF SerializeUnsigned, OwnBytes, OutputsBytes
<1>. QED BY <1>2, <1>6, <1>8 DEF s

LEMMA MoreOutputs ==
  ASSUME NEW chain, NEW type, NEW a, NEW b, GoodOutputs(chain, type, a), GoodOutputs(chain, type, b)
  PROVE  GoodOutputs(chain, type, a \o b)
<1> DEFINE s == a \o b
<1>1. IsLayout(a) /\ IsLayout(b)
  BY DEF GoodOutputs
<1>2. /\ IsLayout(s) /\ Len(s) = Len(a) + Len(b) /\ Len(a) \in Nat /\ Len(b) \in Nat
      /\ \A i \in 1..Len(a) : s[i] = a[i]
      /\ \A i \in 1..Len(b) : s[Len(a) + i] = b[i]
  BY <1>1, LayoutConcat
<1> HIDE DEF s
<1>3. DOMAIN a = 1..Len(a) /\ DOMAIN b = 1..Len(b) /\ DOMAIN s = 1..Len(s)
  BY <1>1, <1>2 DEF IsLayout
<1>4. ASSUME NEW i \in DOMAIN s PROVE GoodOutput(chain, type, s[i])
  <2>1. CASE i \in 1..Len(a)
    BY <1>2, <1>3, <2>1 DEF GoodOutputs
  <2>2. CASE i \notin 1..Len(a)
    <3> DEFINE j == i - Len(a)
    <3>1. j \in 1..Len(b) /\ i = Len(a) + j
      BY <1>2, <1>3, <2>2
    <3> HIDE DEF j
    <3>. QED BY <1>2, <1>3, <3>1 DEF GoodOutputs
  <2>. QED BY <2>1, <2>2
<1>5. GoodOutputs(chain, type, s)
  BY <1>2, <1>4 DEF GoodOutputs
<1>. QED BY <1>5 DEF s

\* The change is a payment.
LEMMA ChangeIsGood ==
  ASSUME NEW chain, NEW type, NEW utxos, NEW plan, NEW fee
  PROVE  GoodOutputs(chain, type, Change(utxos, plan, fee))
<1> DEFINE rest == TotalInput(utxos) - TotalOutput(plan.outputs) - fee
           address == IF plan.back THEN First(utxos) ELSE Address0
           p == Payment(rest, address)
<1>1. Change(utxos, plan, fee) = IF rest \in Nat \ {0} THEN <<p>> ELSE <<>>
  BY DEF Change
<1> HIDE DEF rest, address
<1>2. CASE rest \in Nat \ {0}
  <2>1. rest \in Int
    BY <1>2
  <2>2. GoodOutput(chain, type, p)
    BY <2>1, PaymentIsGood
  <2> HIDE DEF p
  <2>3. GoodOutputs(chain, type, <<p>>)
    BY <2>2, OneOutput
  <2>. QED BY <1>1, <1>2, <2>3
<1>3. CASE rest \notin Nat \ {0}
  BY <1>1, <1>3, NoOutputs
<1>. QED BY <1>2, <1>3

LEMMA NewIsWellMade ==
  ASSUME NEW chain \in Chains, NEW plan, GoodPlan(chain, plan), NEW utxos, NEW fee, NEW memo
  PROVE  WellMade(chain, NewTransaction(chain, utxos, plan, fee, memo))
<1> DEFINE tx == NewTransaction(chain, utxos, plan, fee, memo)
           all == plan.outputs \o Change(utxos, plan, fee)
<1>1. GoodOutputs(chain, plan.type, all)
  BY ChangeIsGood, MoreOutputs DEF GoodPlan
<1>2. /\ tx.version = VersionOf(chain) /\ tx.type = plan.type /\ tx.payloadVersion = plan.version
      /\ tx.payload = NewPayload(plan.class, plan.version)
      /\ tx.outputs = [i \in DOMAIN all |-> TransactionOutput(all[i])]
  BY DEF NewTransaction, VersionOf
<1> HIDE DEF tx, all
<1>3. plan.version \in 0..1 /\ GoodClass(chain, plan.type, plan.class)
  BY DEF GoodPlan
<1>4. \E class : GoodClass(chain, tx.type, class) /\ tx.payload = NewPayload(class, tx.payloadVersion)
  BY <1>2, <1>3
<1>5. \E out : GoodOutputs(chain, tx.type, out) /\ tx.outputs = [i \in DOMAIN out |-> TransactionOutput(out[i])]
  BY <1>1, <1>2
<1>6. WellMade(chain, tx)
  BY <1>2, <1>3, <1>4, <1>5 DEF WellMade
<1>. QED BY <1>6 DEF tx

(***************************************************************************)
(* The balance.  The inputs are the first entries for the transaction      *)
(* outputs that the host names, in their order.                            *)
(***************************************************************************)
\* The place of the first entry for a transaction output.
FirstEntry(inputs, t) ==
  CHOOSE i \in DOMAIN inputs : inputs[i].txo = t /\ \A j \in 1..(i - 1) : inputs[j].txo # t

Txos(inputs) == {inputs[i].txo : i \in DOMAIN inputs}

LEMMA EntryFound ==
  ASSUME NEW S, NEW inputs \in Seq(S), NEW t \in Txos(inputs)
  PROVE  FirstEntry(inputs, t) \in DOMAIN inputs /\ inputs[FirstEntry(inputs, t)].txo = t
<1> DEFINE P == {i \in DOMAIN inputs : inputs[i].txo = t}
<1>1. P \subseteq Nat /\ P # {}
  BY DEF Txos
<1>2. PICK i \in P : \A k \in P : i <= k
  BY <1>1, LeastOf
<1>3. ASSUME NEW j \in 1..(i - 1) PROVE inputs[j].txo # t
  <2>1. j \in DOMAIN inputs /\ ~(i <= j)
    OBVIOUS
  <2>. QED BY <1>2, <2>1
<1>. QED BY <1>2, <1>3 DEF FirstEntry

\* There are no more transaction outputs than entries.
LEMMA TxosFinite ==
  ASSUME NEW S, NEW inputs \in Seq(S)
  PROVE  IsFiniteSet(Txos(inputs)) /\ Cardinality(Txos(inputs)) <= Len(inputs)
<1> DEFINE D == 1..Len(inputs)
           f == [i \in D |-> inputs[i].txo]
<1>0. Len(inputs) \in Nat /\ DOMAIN inputs = D
  OBVIOUS
<1>1. IsFiniteSet(D) /\ Cardinality(D) = Len(inputs)
  BY <1>0, FS_Interval
<1>2. f \in [D -> Txos(inputs)] /\ \A t \in Txos(inputs) : \E i \in D : f[i] = t
  BY <1>0 DEF Txos
<1> HIDE DEF f, D
<1>3. f \in Surjection(D, Txos(inputs))
  BY <1>2 DEF Surjection
<1>4. IsFiniteSet(Txos(inputs)) /\ Cardinality(Txos(inputs)) <= Cardinality(D)
  BY <1>1, <1>3, FS_Surjection, Zenon
<1>. QED BY <1>1, <1>4

\* The set of the inputs in order: each transaction output once.
LEMMA UtxosInOrder ==
  ASSUME NEW inputs \in Seq(Utxos)
  PROVE  LET utxos == UTXOFromJson(inputs)
             n     == Cardinality(Txos(inputs))
         IN  /\ n \in Nat /\ n <= Len(inputs)
             /\ utxos = [k \in 1..n |-> utxos[k]]
             /\ \A k \in 1..n : /\ utxos[k] = inputs[FirstEntry(inputs, utxos[k].txo)]
                                /\ \E i \in DOMAIN inputs : utxos[k] = inputs[i]
             /\ \A k, l \in 1..n : utxos[k].txo = utxos[l].txo => k = l
<1> DEFINE T == Txos(inputs)
           n == Cardinality(T)
           txos == Ordered(T)
           utxos == UTXOFromJson(inputs)
<1>1. IsFiniteSet(T) /\ n <= Len(inputs)
  BY TxosFinite
<1>2. T \in SUBSET Int
  BY UtxosAssumption DEF Txos
<1>3. n \in Nat /\ txos \in [1..n -> T] /\ Increasing(txos)
  BY <1>1, <1>2, OrderedIs
<1>4. utxos = [k \in DOMAIN txos |-> inputs[FirstEntry(inputs, txos[k])]]
  BY DEF UTXOFromJson, FirstEntry, Txos
<1> HIDE DEF T, n, txos, utxos
<1>5. utxos = [k \in 1..n |-> inputs[FirstEntry(inputs, txos[k])]]
  BY <1>3, <1>4
<1>6. ASSUME NEW k \in 1..n
      PROVE  /\ utxos[k] = inputs[FirstEntry(inputs, txos[k])]
             /\ FirstEntry(inputs, txos[k]) \in DOMAIN inputs
             /\ utxos[k].txo = txos[k]
  <2>1. txos[k] \in Txos(inputs)
    BY <1>3 DEF T
  <2>. QED BY <1>5, <2>1, EntryFound
<1>7. ASSUME NEW k \in 1..n, NEW l \in 1..n, txos[k] = txos[l] PROVE k = l
  <2>1. txos[k] \in Int /\ txos[l] \in Int /\ k \in DOMAIN txos /\ l \in DOMAIN txos
    BY <1>2, <1>3
  <2>2. ~(k < l) /\ ~(l < k)
    BY <1>3, <1>7, <2>1 DEF Increasing
  <2>. QED BY <1>3, <2>2
<1>. QED BY <1>1, <1>3, <1>5, <1>6, <1>7 DEF utxos, n, T

\* An address is the code of one program at most.
LEMMA ProgramsAreFew ==
  ASSUME NEW n \in Nat, NEW utxos, DOMAIN utxos = 1..n
  PROVE  Len(UniquePrograms(utxos)) \in Nat /\ Len(UniquePrograms(utxos)) <= n
<1> DEFINE firsts == {i \in DOMAIN utxos : \A j \in 1..(i - 1) : utxos[j].address # utxos[i].address}
           c == Cardinality(firsts)
           order == Ordered(firsts)
<1>1. firsts \in SUBSET (1..n) /\ firsts \in SUBSET Int
  OBVIOUS
<1>2. UniquePrograms(utxos) = [k \in DOMAIN order |-> [code |-> utxos[order[k]].address, parameter |-> {}]]
  BY DEF UniquePrograms
<1> HIDE DEF firsts
<1>3. IsFiniteSet(1..n) /\ Cardinality(1..n) = n
  BY FS_Interval
<1>4. IsFiniteSet(firsts) /\ c <= n
  <2>1. IsFiniteSet(firsts) /\ Cardinality(firsts) <= Cardinality(1..n)
    BY <1>1, <1>3, FS_Subset, Zenon
  <2>. QED BY <1>3, <2>1
<1>5. c \in Nat /\ DOMAIN order = 1..c
  BY <1>1, <1>4, OrderedIs
<1> HIDE DEF c, order
<1>. QED BY <1>2, <1>4, <1>5

\* The two members at the head of the bytes of an output.
LEMMA OutputWire ==
  ASSUME NEW chain \in Chains, NEW type, NEW o, GoodOutput(chain, type, o)
  PROVE  LET s == OutputSerialize(TransactionOutput(o), VersionOf(chain))
         IN  s[1][2] = GetUint64(o.amount) /\ s[2][2] = o.address
<1> DEFINE w == Written(Functions(o.class, 0).Serialize, NewPayload(o.class, 0).val)
           a == <<"Uint64", GetUint64(o.amount)>>
           b == <<"Hash168", o.address>>
           c == <<"Uint8", o.type>>
           none == <<>>
           s == OutputSerialize(TransactionOutput(o), VersionOf(chain))
<1>1. IsLayout(w)
  BY WholePayloadRead DEF GoodOutput
<1>2. CASE chain = "ELA"
  <2>1. s = <<a, b>> \o (<<c>> \o w)
    BY <1>2 DEF OutputSerialize, TransactionOutput, PayloadBytes, NewPayload, When, V09, VersionOf
  <2> HIDE DEF w, a, b, c, s
  <2>2. s[1] = a /\ s[2] = b
    BY <1>1, <2>1, AfterThree
  <2>. QED BY <2>2 DEF a, b, s
<1>3. CASE chain # "ELA"
  <2>1. s = <<a, b>> \o none
    BY <1>3 DEF OutputSerialize, TransactionOutput, When, V09, VersionOf
  <2>2. IsLayout(none)
    BY LayoutOfNone
  <2> HIDE DEF a, b, s, none
  <2>3. s[1] = a /\ s[2] = b
    BY <2>1, <2>2, AfterTwo
  <2>. QED BY <2>3 DEF a, b, s
<1>. QED BY <1>2, <1>3

\* A word that fits is written as it is.
LEMMA GetUint64Fits ==
  ASSUME NEW x \in Nat, x < Word
  PROVE  GetUint64(x) = x
BY WordAssumption DEF GetUint64

\* The last bytes before the programs.
LEMMA UnsignedTail ==
  ASSUME NEW chain, NEW tx, WellMade(chain, tx)
  PROVE  LET s == SerializeUnsigned(tx)
         IN  s[Len(s)][2] = OutputsBytes(tx) /\ s[Len(s) - 1][2] = tx.inputs
<1> DEFINE tail == TailBytes(tx)
           s == SerializeUnsigned(tx)
           front == (When(tx.version >= V09, << <<"Uint8", tx.version>> >>)
                       \o << <<"Uint8", tx.type>>, <<"Uint8", tx.payloadVersion>> >>) \o OwnBytes(tx)
<1>1. s = front \o tail
  BY DEF SerializeUnsigned, OwnBytes, TailBytes, OutputsBytes
<1>2. IsLayout(front)
  <2> DEFINE a == When(tx.version >= V09, << <<"Uint8", tx.version>> >>)
             b == << <<"Uint8", tx.type>>, <<"Uint8", tx.payloadVersion>> >>
  <2>1. IsLayout(a)
    BY LayoutOfOne, LayoutOfNone DEF When
  <2>2. IsLayout(b)
    BY LayoutOfTwo
  <2>3. IsLayout(OwnBytes(tx))
    BY OwnBytesStream
  <2> HIDE DEF a, b
  <2>4. IsLayout((a \o b) \o OwnBytes(tx))
    BY <2>1, <2>2, <2>3, LayoutConcat
  <2>. QED BY <2>4 DEF a, b
<1>3. IsLayout(tail) /\ Len(tail) = 3
  BY LayoutOfThree DEF TailBytes
<1>4. tail[2][2] = tx.inputs /\ tail[3][2] = OutputsBytes(tx)
  BY DEF TailBytes
<1> HIDE DEF front, tail, s
<1>5. /\ Len(s) = Len(front) + 3 /\ Len(front) \in Nat
      /\ \A i \in 1..3 : s[Len(front) + i] = tail[i]
  <2>1. /\ Len(front \o tail) = Len(front) + Len(tail) /\ Len(front) \in Nat
        /\ \A i \in 1..Len(tail) : (front \o tail)[Len(front) + i] = tail[i]
    <3>1. IsLayout(tail)
      BY <1>3
    <3>. QED BY <1>2, <3>1, LayoutConcat
  <2>2. /\ Len(s) = Len(front) + Len(tail)
        /\ \A i \in 1..Len(tail) : s[Len(front) + i] = tail[i]
    BY <1>1, <2>1
  <2>. QED BY <1>3, <2>1, <2>2
<1>6. s[Len(s)] = tail[3] /\ s[Len(s) - 1] = tail[2]
  BY <1>5
<1>. QED BY <1>4, <1>6 DEF s

\* What was created was planned, and neither refused nor crashed.
MadeBy(m) ==
  /\ m.chain \in Chains /\ m.inputs \in SeqOf(Utxos, MaxInputs) /\ m.fee \in Int
  /\ \A i \in DOMAIN m.inputs : m.inputs[i].amount >= 0
  /\ \E plan, memo :
       /\ GoodPlan(m.chain, plan) /\ m.requested = plan.outputs
       /\ m.tx = NewTransaction(m.chain, UTXOFromJson(m.inputs), plan, m.fee, memo)
       /\ Result(UTXOFromJson(m.inputs), plan, m.tx, m.fee) = "created"

LEMMA SeqOfIsSeq ==
  ASSUME NEW S, NEW n \in Nat, NEW s \in SeqOf(S, n)
  PROVE  s \in Seq(S) /\ Len(s) <= n
<1>1. PICK m \in 0..n : s \in [1..m -> S]
  BY DEF SeqOf
<1>. QED BY <1>1

\* The amounts of a transaction, the change included, and who gets the change.
Paid(chain, utxos, plan, fee) ==
  LET all == plan.outputs \o Change(utxos, plan, fee)
      n   == Len(plan.outputs)
  IN  /\ GoodOutputs(chain, plan.type, all) /\ n \in Nat /\ Len(all) \in {n, n + 1}
      /\ \A i \in 1..n : all[i] = plan.outputs[i]
      /\ TotalInput(utxos) \in Nat /\ TotalOutput(plan.outputs) \in Int
      /\ TotalOutput(all) + fee = TotalInput(utxos)
      /\ TotalOutput(plan.outputs) + fee <= TotalInput(utxos)
      /\ Len(all) = n + 1 => all[n + 1].amount \in Nat /\ all[n + 1].address \in Owned

LEMMA ChangeBalances ==
  ASSUME NEW chain \in Chains, NEW inputs \in Seq(Utxos), \A i \in DOMAIN inputs : inputs[i].amount >= 0,
         NEW plan, GoodPlan(chain, plan), NEW fee \in Int, NEW memo,
         Result(UTXOFromJson(inputs), plan,
                NewTransaction(chain, UTXOFromJson(inputs), plan, fee, memo), fee) = "created"
  PROVE  Paid(chain, UTXOFromJson(inputs), plan, fee)
<1> DEFINE utxos == UTXOFromJson(inputs)
           out == plan.outputs
           change == Change(utxos, plan, fee)
           all == out \o change
           n == Len(out)
           tx == NewTransaction(chain, utxos, plan, fee, memo)
           amounts == [i \in DOMAIN out |-> out[i].amount]
           rest == TotalInput(utxos) - TotalOutput(out) - fee
           address == IF plan.back THEN First(utxos) ELSE Address0
           p == Payment(rest, address)
           u == Cardinality(Txos(inputs))
<1>1. /\ u \in Nat /\ utxos = [k \in 1..u |-> utxos[k]]
      /\ \A k \in 1..u : \E i \in DOMAIN inputs : utxos[k] = inputs[i]
  BY UtxosInOrder
<1>2. TotalInput(utxos) = Total([i \in DOMAIN utxos |-> utxos[i].amount])
  BY DEF TotalInput
<1>3. TotalOutput(out) = Total(amounts)
  BY DEF TotalOutput
<1>4. /\ CodesFound(utxos) /\ ~(TotalInput(utxos) < TotalOutput(out) + fee)
      /\ \A i \in DOMAIN tx.outputs : tx.outputs[i].address # Null
  BY DEF Result
<1>5. tx.outputs = [i \in DOMAIN all |-> TransactionOutput(all[i])]
  BY DEF NewTransaction
<1>6. change = IF rest \in Nat \ {0} THEN <<p>> ELSE <<>>
  BY DEF Change
<1>7. GoodOutputs(chain, plan.type, out)
  BY DEF GoodPlan
<1>8. GoodOutputs(chain, plan.type, all)
  BY <1>7, ChangeIsGood, MoreOutputs
<1> HIDE DEF utxos, tx, u
<1>9. TotalInput(utxos) \in Nat
  <2> DEFINE s == [i \in DOMAIN utxos |-> utxos[i].amount]
  <2>1. \A k \in 1..u : utxos[k].amount \in Nat
    BY <1>1, UtxosAssumption
  <2>2. DOMAIN utxos = 1..u
    BY <1>1
  <2>3. s \in Seq(Nat)
    BY <1>1, <2>1, <2>2
  <2> HIDE DEF s
  <2>. QED BY <1>2, <2>3, TotalNat DEF s
<1>10. IsLayout(out) /\ n \in Nat /\ DOMAIN out = 1..n /\ \A i \in 1..n : out[i].amount \in Int
  BY <1>7 DEF GoodOutputs, GoodOutput, IsLayout
<1> HIDE DEF out, n
<1>11. amounts \in Seq(Int)
  BY <1>10
<1>12. TotalOutput(out) \in Int
  BY <1>3, <1>11, TotalInt
<1>13. rest \in Nat
  BY <1>4, <1>9, <1>12
<1> HIDE DEF rest, change, address
<1>14. CASE rest = 0
  <2>1. change = <<>>
    BY <1>6, <1>14
  <2>2. all = out
    BY <1>10, <2>1, ConcatNone
  <2> HIDE DEF all
  <2>3. TotalOutput(all) + fee = TotalInput(utxos)
    BY <1>9, <1>12, <1>14, <2>2 DEF rest
  <2>4. TotalOutput(out) + fee <= TotalInput(utxos)
    BY <1>4, <1>9, <1>12
  <2>5. Len(all) = n /\ n # n + 1
    <3>1. n # n + 1
      BY <1>10
    <3>2. n = Len(out)
      BY DEF n
    <3>. QED BY <2>2, <3>1, <3>2, Zenon
  <2>. QED BY <1>8, <1>9, <1>10, <1>12, <2>2, <2>3, <2>4, <2>5 DEF Paid, utxos, out, n, change, all
<1>15. CASE rest # 0
  <2> DEFINE q == <<p>>
  <2>1. change = q
    BY <1>6, <1>13, <1>15
  <2>2. p.amount = rest /\ p.address = address
    BY DEF Payment, Output
  <2> HIDE DEF p
  <2>3. IsLayout(q) /\ Len(q) = 1 /\ q[1] = p
    BY LayoutOfOne
  <2> HIDE DEF q
  <2>4. /\ IsLayout(all) /\ Len(all) = n + 1
        /\ \A i \in 1..n : all[i] = out[i]
        /\ all[n + 1] = p
    BY <1>10, <2>1, <2>3, LayoutConcat DEF n
  <2> HIDE DEF all
  <2>5. DOMAIN all = 1..(n + 1)
    BY <1>10, <2>4 DEF IsLayout
  <2>6. TotalOutput(all) = TotalOutput(out) + rest
    <3> DEFINE s == [i \in DOMAIN all |-> all[i].amount]
    <3>1. s = Append(amounts, rest)
      <4>1. \A i \in 1..n : s[i] = out[i].amount
        BY <1>10, <2>4, <2>5
      <4>2. s[n + 1] = rest
        BY <1>10, <2>2, <2>4, <2>5
      <4>3. Len(amounts) = n /\ DOMAIN amounts = 1..n /\ \A i \in 1..n : amounts[i] = out[i].amount
        BY <1>10
      <4>4. s = [i \in 1..(n + 1) |-> s[i]]
        BY <2>5
      <4> HIDE DEF s, amounts
      <4> DEFINE t == Append(amounts, rest)
      <4>5. t \in Seq(Int) /\ Len(t) = n + 1 /\ t[n + 1] = rest /\ \A i \in 1..n : t[i] = amounts[i]
        BY <1>10, <1>11, <1>13, <4>3
      <4> HIDE DEF t
      <4>6. t = [i \in 1..(n + 1) |-> t[i]]
        BY <4>5
      <4>7. \A i \in 1..(n + 1) : t[i] = s[i]
        BY <1>10, <4>1, <4>2, <4>3, <4>5
      <4>. QED BY <4>4, <4>6, <4>7 DEF t
    <3>2. Total(Append(amounts, rest)) = Total(amounts) + rest
      BY <1>11, <1>13, TotalAppend
    <3>3. TotalOutput(all) = Total(s)
      BY DEF TotalOutput
    <3> HIDE DEF s, amounts
    <3>. QED BY <1>3, <3>1, <3>2, <3>3
  <2>7. TotalOutput(all) + fee = TotalInput(utxos) /\ TotalOutput(out) + fee <= TotalInput(utxos)
    BY <1>4, <1>9, <1>12, <2>6 DEF rest
  <2>8. address \in Owned
    <3>1. n + 1 \in DOMAIN all /\ tx.outputs[n + 1] = TransactionOutput(p)
      BY <1>5, <1>10, <2>4, <2>5 DEF all
    <3>2. tx.outputs[n + 1].address = address /\ n + 1 \in DOMAIN tx.outputs
      BY <1>5, <2>2, <3>1 DEF TransactionOutput, all
    <3>3. address # Null
      BY <1>4, <3>2
    <3>4. CASE ~plan.back
      BY <3>4, AddressAssumption DEF address
    <3>5. CASE plan.back
      <4>1. utxos # <<>> /\ address = utxos[1].address
        BY <3>3, <3>5 DEF address, First
      <4>2. u # 0
        BY <1>1, <4>1
      <4>3. 1 \in DOMAIN utxos
        BY <1>1, <4>2
      <4>. QED BY <1>4, <4>1, <4>3 DEF CodesFound
    <3>. QED BY <3>4, <3>5
  <2>. QED BY <1>8, <1>9, <1>10, <1>12, <1>13, <2>2, <2>4, <2>7, <2>8 DEF Paid, utxos, all, out, n, change
<1>. QED BY <1>13, <1>14, <1>15

(***************************************************************************)
(* The inductive invariant.                                                *)
(***************************************************************************)
\* Programs whose signatures are all over the bytes of a transaction.
SignedOver(tx, ps) ==
  \A i \in DOMAIN ps :
    DOMAIN ps[i] = {"code", "parameter"} /\ \A sig \in ps[i].parameter : sig[2] = SerializeUnsigned(tx)

\* Data that is a transaction as it was made, and such programs.
Carries(tx, data) == \E ps : data = WithPrograms(tx, ps) /\ SignedOver(tx, ps)

BytesInv ==
  /\ (made = None) <=> (encoded = None)
  /\ made = None => raw = None
  /\ outcome = "crashed" => made = None
  /\ made # None => /\ WellMade(made.chain, made.tx) /\ encoded.ChainID = made.chain
                    /\ Carries(made.tx, encoded.Data)
  /\ raw # None => Carries(made.tx, raw)

LEMMA BytesInit == Init => BytesInv
BY DEF Init, BytesInv

\* Decoding, by any sub wallet, what carries a transaction.
LEMMA DecodeCarried ==
  ASSUME NEW tx, NEW e, WellMade(e.ChainID, tx), NEW ps, e.Data = WithPrograms(tx, ps), NEW chain
  PROVE  LET d == DecodeTx(chain, e)
         IN  /\ d.result = "ok" \/ d.result = "refused"
             /\ d.result = "ok" => /\ e.ChainID = chain /\ ~IsStaking(chain, tx.type)
                                   /\ DOMAIN d.tx = TransactionFields /\ d.tx.programs = ps
                                   /\ SerializeUnsigned(d.tx) = SerializeUnsigned(tx)
             /\ e.ChainID = chain /\ ~IsStaking(chain, tx.type) => d.result = "ok"
<1> DEFINE d == DecodeTx(chain, e)
<1>1. CASE e.ChainID # chain
  <2>1. d.result = "refused"
    BY <1>1 DEF DecodeTx
  <2>. QED BY <1>1, <2>1
<1>2. CASE e.ChainID = chain /\ IsStaking(chain, tx.type)
  <2>1. d.result = "refused"
    BY <1>2, StakingIsRefused DEF DecodeTx
  <2>. QED BY <1>2, <2>1
<1>3. CASE e.ChainID = chain /\ ~IsStaking(chain, tx.type)
  <2>1. d = Deserialize(chain, WithPrograms(tx, ps))
    BY <1>3 DEF DecodeTx
  <2>2. /\ d.result = "ok" /\ DOMAIN d.tx = TransactionFields /\ d.tx.programs = ps
        /\ SerializeUnsigned(d.tx) = SerializeUnsigned(tx)
    BY <1>3, <2>1, OthersAreDecoded
  <2>. QED BY <1>3, <2>2
<1>. QED BY <1>1, <1>2, <1>3

\* The bytes that are signed do not depend on the programs.
LEMMA ProgramsAreNotSigned ==
  ASSUME NEW tx, DOMAIN tx = TransactionFields, NEW ps
  PROVE  Serialize([tx EXCEPT !.programs = ps]) = WithPrograms(tx, ps)
<1> DEFINE new == [tx EXCEPT !.programs = ps]
<1>1. /\ new.version = tx.version /\ new.type = tx.type /\ new.payloadVersion = tx.payloadVersion
      /\ new.payload = tx.payload /\ new.attributes = tx.attributes /\ new.inputs = tx.inputs
      /\ new.outputs = tx.outputs /\ new.programs = ps
  BY DEF TransactionFields
<1> HIDE DEF new
<1>2. SerializeUnsigned(new) = SerializeUnsigned(tx)
  BY <1>1, Zenon DEF SerializeUnsigned
<1>3. Serialize(new) = WithPrograms(tx, ps)
  BY <1>1, <1>2, Zenon DEF Serialize, WithPrograms
<1>. QED BY <1>3 DEF new

LEMMA CreateBytes ==
  ASSUME BytesInv, NEW chain \in Chains, NEW inputs, NEW amount \in Amounts, NEW fee \in Fees, NEW memo,
         Create(chain, inputs, amount, fee, memo)
  PROVE  BytesInv'
<1> DEFINE utxos == UTXOFromJson(inputs)
           a == [utxos |-> utxos, amount |-> amount, fee |-> fee]
<1>1. made = None /\ encoded = None /\ raw = None
  BY DEF Create, BytesInv
<1>2. CASE made' = made /\ encoded' = encoded /\ raw' = raw
  BY <1>1, <1>2 DEF BytesInv
<1>3. CASE ~(made' = made /\ encoded' = encoded /\ raw' = raw)
  <2>1. PICK plan \in Plans(chain, a) :
          Built(chain, inputs, utxos, plan, fee, NewTransaction(chain, utxos, plan, fee, memo))
    BY <1>3 DEF Create
  <2> DEFINE tx == NewTransaction(chain, utxos, plan, fee, memo)
             m == [chain |-> chain, inputs |-> inputs, requested |-> plan.outputs, fee |-> fee, tx |-> tx]
             e == EncodeTx(chain, tx, GetUint64(fee))
  <2>2. made' = m /\ encoded' = e /\ raw' = raw /\ outcome' = "created"
    BY <1>3, <2>1 DEF Built
  <2>3. a.amount \in Int /\ a.fee \in Int
    BY AmountsAssumption
  <2>4. GoodPlan(chain, plan)
    <3> HIDE DEF a
    <3>. QED BY <2>1, <2>3, AllPlans
  <2>5. WellMade(chain, tx)
    BY <2>4, NewIsWellMade
  <2>6. Carries(tx, e.Data)
    <3>1. e.Data = WithPrograms(tx, tx.programs)
      BY DEF EncodeTx, Serialize, WithPrograms
    <3>2. tx.programs = UniquePrograms(utxos)
      BY DEF NewTransaction
    <3>3. SignedOver(tx, UniquePrograms(utxos))
      BY DEF SignedOver, UniquePrograms
    <3> HIDE DEF tx, e
    <3>. QED BY <3>1, <3>2, <3>3 DEF Carries
  <2>7. m # None /\ e # None /\ m.chain = chain /\ m.tx = tx /\ e.ChainID = chain
    BY DEF None, EncodeTx
  <2> HIDE DEF m, e, tx
  <2>8. /\ made' # None /\ encoded' # None /\ raw' = None /\ outcome' # "crashed"
        /\ made'.chain = chain /\ made'.tx = tx /\ encoded'.ChainID = chain
    BY <1>1, <2>2, <2>7
  <2>9. WellMade(made'.chain, made'.tx) /\ encoded'.ChainID = made'.chain /\ Carries(made'.tx, encoded'.Data)
    BY <2>2, <2>5, <2>6, <2>8
  <2>. QED BY <2>8, <2>9 DEF BytesInv
<1>. QED BY <1>2, <1>3

LEMMA SignBytes ==
  ASSUME BytesInv, NEW chain, NEW k, SignTransaction(chain, k)
  PROVE  BytesInv'
<1> DEFINE d == DecodeTx(chain, encoded)
           md == SerializeUnsigned(d.tx)
<1>1. /\ encoded # None /\ raw = None /\ made # None /\ made' = made /\ raw' = raw
  BY DEF SignTransaction, BytesInv
<1>2. WellMade(made.chain, made.tx) /\ encoded.ChainID = made.chain
  BY <1>1 DEF BytesInv
<1>3. PICK ps : encoded.Data = WithPrograms(made.tx, ps) /\ SignedOver(made.tx, ps)
  BY <1>1 DEF BytesInv, Carries
<1>4. /\ d.result = "ok" \/ d.result = "refused"
      /\ d.result = "ok" => /\ encoded.ChainID = chain
                            /\ DOMAIN d.tx = TransactionFields /\ d.tx.programs = ps
                            /\ SerializeUnsigned(d.tx) = SerializeUnsigned(made.tx)
  BY <1>2, <1>3, DecodeCarried
<1>5. \/ d.result # "ok" /\ outcome' = d.result /\ encoded' = encoded
      \/ d.result = "ok" /\ Signed(chain, k, d.tx, md)
  BY DEF SignTransaction
<1> HIDE DEF d
<1>6. CASE encoded' = encoded /\ outcome' # "crashed"
  BY <1>1, <1>6 DEF BytesInv
<1>7. CASE d.result = "ok" /\ ~(encoded' = encoded)
  <2> DEFINE new == WithSignature(ps, <<k, md>>)
             tx == [d.tx EXCEPT !.programs = new]
  <2>1. outcome' = "signed"
    BY <1>5, <1>7 DEF Signed
  <2>2. encoded' = EncodeTx(chain, tx, encoded.Fee)
    BY <1>4, <1>5, <1>7 DEF Signed
  <2>3. encoded'.ChainID = chain /\ encoded'.Data = Serialize(tx) /\ encoded' # None
    <3> HIDE DEF tx
    <3>. QED BY <2>2 DEF EncodeTx, None
  <2>4. Serialize(tx) = WithPrograms(d.tx, new)
    BY <1>4, <1>7, ProgramsAreNotSigned
  <2>5. WithPrograms(d.tx, new) = WithPrograms(made.tx, new)
    BY <1>4, <1>7 DEF WithPrograms
  <2>6. SignedOver(made.tx, new)
    <3>1. md = SerializeUnsigned(made.tx)
      BY <1>4, <1>7
    <3> HIDE DEF md
    <3>2. ASSUME NEW i \in DOMAIN ps
          PROVE  /\ DOMAIN new[i] = {"code", "parameter"}
                 /\ new[i].parameter = ps[i].parameter \cup {<<k, md>>}
      BY <1>3 DEF SignedOver, WithSignature
    <3>3. <<k, md>>[2] = md
      OBVIOUS
    <3>4. DOMAIN new = DOMAIN ps
      BY DEF WithSignature
    <3> HIDE DEF new
    <3>. QED BY <1>3, <3>1, <3>2, <3>3, <3>4 DEF SignedOver
  <2>7. Carries(made.tx, encoded'.Data)
    <3> HIDE DEF new, tx
    <3>. QED BY <2>3, <2>4, <2>5, <2>6 DEF Carries
  <2>8. encoded'.ChainID = made.chain
    BY <1>2, <1>4, <1>7, <2>3
  <2>9. made' = made /\ outcome' # "crashed"
    BY <1>1, <2>1
  <2>. QED BY <1>1, <1>2, <2>3, <2>7, <2>8, <2>9 DEF BytesInv
<1>8. CASE d.result = "ok" /\ encoded' = encoded /\ outcome' = "crashed"
  BY <1>5, <1>8 DEF Signed
<1>. QED BY <1>4, <1>5, <1>6, <1>7, <1>8

LEMMA ConvertBytes ==
  ASSUME BytesInv, NEW chain, ConvertToRawTransaction(chain)
  PROVE  BytesInv'
<1> DEFINE d == DecodeTx(chain, encoded)
<1>1. /\ encoded # None /\ raw = None /\ made # None /\ made' = made /\ encoded' = encoded
  BY DEF ConvertToRawTransaction, BytesInv
<1>2. WellMade(made.chain, made.tx) /\ encoded.ChainID = made.chain
  BY <1>1 DEF BytesInv
<1>3. PICK ps : encoded.Data = WithPrograms(made.tx, ps) /\ SignedOver(made.tx, ps)
  BY <1>1 DEF BytesInv, Carries
<1>4. /\ d.result = "ok" \/ d.result = "refused"
      /\ d.result = "ok" => /\ d.tx.programs = ps
                            /\ SerializeUnsigned(d.tx) = SerializeUnsigned(made.tx)
  BY <1>2, <1>3, DecodeCarried
<1>5. \/ d.result # "ok" /\ outcome' = d.result /\ raw' = raw
      \/ d.result = "ok" /\ outcome' = "converted" /\ raw' = Serialize(d.tx)
  BY DEF ConvertToRawTransaction
<1> HIDE DEF d
<1>6. outcome' # "crashed"
  BY <1>4, <1>5
<1>7. raw' # None => Carries(made'.tx, raw')
  <2>1. CASE d.result = "ok"
    <3>1. raw' = WithPrograms(made.tx, ps)
      BY <1>4, <1>5, <2>1 DEF Serialize, WithPrograms
    <3>. QED BY <1>1, <1>3, <3>1 DEF Carries
  <2>2. CASE d.result # "ok"
    BY <1>1, <1>5, <2>2
  <2>. QED BY <2>1, <2>2
<1>. QED BY <1>1, <1>6, <1>7 DEF BytesInv

LEMMA BytesNext == BytesInv /\ [Next]_vars => BytesInv'
<1> SUFFICES ASSUME BytesInv, [Next]_vars PROVE BytesInv'
  OBVIOUS
<1>1. ASSUME NEW chain \in Chains, NEW inputs, NEW amount \in Amounts,
             NEW fee \in Fees, NEW memo \in BOOLEAN, Create(chain, inputs, amount, fee, memo)
      PROVE  BytesInv'
  BY <1>1, CreateBytes
<1>2. ASSUME NEW chain \in Chains, NEW k \in Signers, SignTransaction(chain, k) PROVE BytesInv'
  BY <1>2, SignBytes
<1>3. ASSUME NEW chain \in Chains, ConvertToRawTransaction(chain) PROVE BytesInv'
  BY <1>3, ConvertBytes
<1>4. CASE UNCHANGED vars
  BY <1>4 DEF vars, BytesInv
<1>. QED BY <1>1, <1>2, <1>3, <1>4 DEF Next

LEMMA BytesInvariant == Spec => []BytesInv
BY BytesInit, BytesNext, PTL DEF Spec

(***************************************************************************)
(* The theorems.                                                           *)
(***************************************************************************)
\* The bytes and the signatures of what carries a transaction.
LEMMA CarriedBytes ==
  ASSUME NEW chain, NEW tx, WellMade(chain, tx), NEW data, Carries(tx, data)
  PROVE  /\ UnsignedBytes(data) = SerializeUnsigned(tx)
         /\ \A sig \in Signatures(data) : sig[2] = SerializeUnsigned(tx)
<1> DEFINE s == SerializeUnsigned(tx)
<1>1. PICK ps : data = WithPrograms(tx, ps) /\ SignedOver(tx, ps)
  BY DEF Carries
<1> DEFINE a == <<"Programs", ps>>
           q == <<a>>
<1>2. IsLayout(s)
  BY UnsignedParts
<1>3. IsLayout(q) /\ Len(q) = 1 /\ q[1] = a
  BY LayoutOfOne
<1>4. data = s \o q
  BY <1>1 DEF WithPrograms
<1>5. a[2] = ps
  OBVIOUS
<1> HIDE DEF s, a, q
<1>6. /\ Len(s \o q) = Len(s) + Len(q) /\ Len(s) \in Nat
      /\ \A i \in 1..Len(q) : (s \o q)[Len(s) + i] = q[i]
      /\ SubSeq(s \o q, 1, Len(s)) = s
  BY <1>2, <1>3, LayoutConcat, SplitConcat
<1>7. Len(data) = Len(s) + 1 /\ data[Len(s) + 1] = a
  BY <1>3, <1>4, <1>6
<1>8. Len(data) - 1 = Len(s) /\ data[Len(data)][2] = ps
  BY <1>5, <1>6, <1>7
<1>9. UnsignedBytes(data) = s
  BY <1>4, <1>6, <1>8 DEF UnsignedBytes
<1>10. Signatures(data) = UNION {ps[i].parameter : i \in DOMAIN ps}
  BY <1>8 DEF Signatures
<1>11. \A sig \in Signatures(data) : sig[2] = SerializeUnsigned(tx)
  BY <1>1, <1>10 DEF SignedOver
<1>. QED BY <1>9, <1>11 DEF s

\* Whatever the cosigners do with it, and in whatever order, a transaction keeps the bytes
\* it was created with: all signatures, and the raw bytes that are published, are over
\* them (Transaction::Serialize, Deserialize and GetShaData, SubAccount::SignTransaction).
THEOREM BytesAreKept == Spec => []SignedBytesAgree
<1>1. BytesInv => SignedBytesAgree
  <2> SUFFICES ASSUME BytesInv,
                      NEW data \in {e.Data : e \in {encoded} \ {None}} \cup ({raw} \ {None}),
                      NEW bytes \in {UnsignedBytes(data)} \cup {sig[2] : sig \in Signatures(data)}
               PROVE  bytes = SerializeUnsigned(made.tx)
    BY DEF SignedBytesAgree
  <2>1. (encoded # None /\ data = encoded.Data) \/ (raw # None /\ data = raw)
    OBVIOUS
  <2>2. made # None
    BY <2>1 DEF BytesInv
  <2>3. WellMade(made.chain, made.tx) /\ Carries(made.tx, data)
    BY <2>1, <2>2 DEF BytesInv
  <2>4. /\ UnsignedBytes(data) = SerializeUnsigned(made.tx)
        /\ \A sig \in Signatures(data) : sig[2] = SerializeUnsigned(made.tx)
    BY <2>3, CarriedBytes
  <2>. QED BY <2>4
<1>. QED BY <1>1, BytesInvariant, PTL

\* The sub wallet of its chain can decode every transaction that a Create function made,
\* except the staking transactions, which it always refuses (Transaction::InitPayload and
\* the Create functions of MainchainSubWallet).
THEOREM CreatedIsDecodable == Spec => []DecodableUnlessStaking
<1>1. BytesInv => DecodableUnlessStaking
  <2> SUFFICES ASSUME BytesInv, encoded # None
               PROVE  DecodeTx(made.chain, encoded).result = "ok"
                        <=> ~(made.chain = "ELA" /\ made.tx.type \in StakingTypes)
    BY DEF DecodableUnlessStaking
  <2>1. WellMade(made.chain, made.tx) /\ encoded.ChainID = made.chain
    BY DEF BytesInv
  <2>2. PICK ps : encoded.Data = WithPrograms(made.tx, ps)
    BY DEF BytesInv, Carries
  <2>3. DecodeTx(made.chain, encoded).result = "ok" <=> ~IsStaking(made.chain, made.tx.type)
    BY <2>1, <2>2, DecodeCarried
  <2>. QED BY <2>3 DEF IsStaking
<1>. QED BY <1>1, BytesInvariant, PTL

\* No call on an encoded transaction goes through the null pointer that an output type
\* without a payload class gives (TransactionOutput::Deserialize).
THEOREM NoNullPayload == Spec => []DecodingNeverCrashes
<1>1. BytesInv => DecodingNeverCrashes
  BY DEF BytesInv, DecodingNeverCrashes
<1>. QED BY <1>1, BytesInvariant, PTL

(***************************************************************************)
(* The balance and the types.  A second invariant, beside the one about    *)
(* the bytes, says how the transaction was made; nothing but Create makes  *)
(* one, and the fee in the JSON stays what it was.                         *)
(***************************************************************************)
Outcomes == {"none", "created", "refused", "crashed", "signed", "notSigned", "converted"}

MadeInv ==
  /\ outcome \in Outcomes
  /\ made # None => MadeBy(made) /\ encoded.Fee = GetUint64(made.fee)

LEMMA MadeInit == Init => MadeInv
BY DEF Init, MadeInv, Outcomes

LEMMA CreateMade ==
  ASSUME BytesInv, NEW chain \in Chains, NEW inputs \in SeqOf(Utxos, MaxInputs),
         NEW amount \in Amounts, NEW fee \in Fees, NEW memo, Create(chain, inputs, amount, fee, memo)
  PROVE  MadeInv'
<1> DEFINE utxos == UTXOFromJson(inputs)
           a == [utxos |-> utxos, amount |-> amount, fee |-> fee]
<1>1. made = None
  BY DEF Create
<1>2. CASE made' = made /\ outcome' = "refused"
  BY <1>1, <1>2 DEF MadeInv, Outcomes
<1>3. ASSUME NEW plan \in Plans(chain, a), \A i \in DOMAIN inputs : inputs[i].amount >= 0,
             Built(chain, inputs, utxos, plan, fee, NewTransaction(chain, utxos, plan, fee, memo))
      PROVE  MadeInv'
  <2> DEFINE tx == NewTransaction(chain, utxos, plan, fee, memo)
             m == [chain |-> chain, inputs |-> inputs, requested |-> plan.outputs, fee |-> fee, tx |-> tx]
             e == EncodeTx(chain, tx, GetUint64(fee))
             r == Result(utxos, plan, tx, fee)
  <2>1. r \in Outcomes
    BY DEF Result, Outcomes
  <2>2. outcome' = r
    BY <1>3 DEF Built
  <2>3. CASE r # "created"
    <3>1. made' = made
      BY <1>3, <2>3 DEF Built
    <3> HIDE DEF r
    <3>. QED BY <1>1, <2>1, <2>2, <3>1 DEF MadeInv
  <2>4. CASE r = "created"
    <3>1. made' = m /\ encoded' = e
      BY <1>3, <2>4 DEF Built
    <3>2. a.amount \in Int /\ a.fee \in Int /\ fee \in Int
      BY AmountsAssumption
    <3>3. GoodPlan(chain, plan)
      <4> HIDE DEF a
      <4>. QED BY <1>3, <3>2, AllPlans
    <3>4. /\ m.chain = chain /\ m.inputs = inputs /\ m.requested = plan.outputs /\ m.fee = fee /\ m.tx = tx
          /\ e.Fee = GetUint64(fee)
      BY DEF EncodeTx
    <3>5. m.tx = NewTransaction(m.chain, UTXOFromJson(m.inputs), plan, m.fee, memo)
      BY <3>4
    <3>6. Result(UTXOFromJson(m.inputs), plan, m.tx, m.fee) = "created"
      BY <2>4, <3>4
    <3> HIDE DEF m, e, tx, r
    <3>7. MadeBy(m)
      BY <1>3, <3>2, <3>3, <3>4, <3>5, <3>6 DEF MadeBy
    <3>. QED BY <2>1, <2>2, <3>1, <3>4, <3>7 DEF MadeInv
  <2>. QED BY <2>3, <2>4
<1>4. \/ outcome' = "refused" /\ made' = made
      \/ /\ \A i \in DOMAIN inputs : inputs[i].amount >= 0
         /\ \E plan \in Plans(chain, a) :
              Built(chain, inputs, utxos, plan, fee, NewTransaction(chain, utxos, plan, fee, memo))
  BY DEF Create
<1> HIDE DEF a, utxos
<1>. QED BY <1>2, <1>3, <1>4

\* What a call on an encoded transaction may answer.
LEMMA DecodeAnswers ==
  ASSUME BytesInv, encoded # None, NEW chain
  PROVE  DecodeTx(chain, encoded).result \in {"ok", "refused"}
<1>1. made # None /\ WellMade(encoded.ChainID, made.tx)
  BY DEF BytesInv
<1>2. PICK ps : encoded.Data = WithPrograms(made.tx, ps)
  BY <1>1 DEF BytesInv, Carries
<1>. QED BY <1>1, <1>2, DecodeCarried

LEMMA SignMade ==
  ASSUME BytesInv, MadeInv, NEW chain, NEW k, SignTransaction(chain, k)
  PROVE  MadeInv'
<1> DEFINE d == DecodeTx(chain, encoded)
<1>1. encoded # None /\ made' = made /\ d.result \in {"ok", "refused"}
  BY DecodeAnswers DEF SignTransaction
<1>2. \/ d.result # "ok" /\ outcome' = d.result /\ encoded' = encoded
      \/ d.result = "ok" /\ Signed(chain, k, d.tx, SerializeUnsigned(d.tx))
  BY DEF SignTransaction
<1> HIDE DEF d
<1>3. outcome' \in Outcomes /\ encoded'.Fee = encoded.Fee
  BY <1>1, <1>2 DEF Signed, EncodeTx, Outcomes
<1>. QED BY <1>1, <1>3 DEF MadeInv

LEMMA ConvertMade ==
  ASSUME BytesInv, MadeInv, NEW chain, ConvertToRawTransaction(chain)
  PROVE  MadeInv'
<1>1. encoded # None /\ made' = made /\ encoded' = encoded
  BY DEF ConvertToRawTransaction
<1>2. DecodeTx(chain, encoded).result \in {"ok", "refused"}
  BY <1>1, DecodeAnswers
<1>3. outcome' \in Outcomes
  BY <1>2 DEF ConvertToRawTransaction, Outcomes
<1>. QED BY <1>1, <1>3 DEF MadeInv

LEMMA MadeNext == BytesInv /\ MadeInv /\ [Next]_vars => MadeInv'
<1> SUFFICES ASSUME BytesInv, MadeInv, [Next]_vars PROVE MadeInv'
  OBVIOUS
<1>1. ASSUME NEW chain \in Chains, NEW inputs \in SeqOf(Utxos, MaxInputs), NEW amount \in Amounts,
             NEW fee \in Fees, NEW memo \in BOOLEAN, Create(chain, inputs, amount, fee, memo)
      PROVE  MadeInv'
  BY <1>1, CreateMade
<1>2. ASSUME NEW chain \in Chains, NEW k \in Signers, SignTransaction(chain, k) PROVE MadeInv'
  BY <1>2, SignMade
<1>3. ASSUME NEW chain \in Chains, ConvertToRawTransaction(chain) PROVE MadeInv'
  BY <1>3, ConvertMade
<1>4. CASE UNCHANGED vars
  BY <1>4 DEF vars, MadeInv
<1>. QED BY <1>1, <1>2, <1>3, <1>4 DEF Next

LEMMA MadeInvariant == Spec => []MadeInv
BY BytesInit, BytesNext, MadeInit, MadeNext, PTL DEF Spec

\* What TypeOK says of a transaction.
LEMMA MadeTypes ==
  ASSUME NEW m, MadeBy(m)
  PROVE  /\ \A i \in DOMAIN m.tx.outputs : m.tx.outputs[i].amount \in Int
         /\ Len(m.tx.programs) <= Len(m.tx.inputs) /\ Len(m.tx.inputs) <= MaxInputs
<1> DEFINE utxos == UTXOFromJson(m.inputs)
           n == Cardinality(Txos(m.inputs))
<1>1. PICK plan, memo : GoodPlan(m.chain, plan) /\ m.tx = NewTransaction(m.chain, utxos, plan, m.fee, memo)
  BY DEF MadeBy
<1>2. m.inputs \in Seq(Utxos) /\ Len(m.inputs) <= MaxInputs
  BY SeqOfIsSeq, AddressAssumption DEF MadeBy
<1>3. n \in Nat /\ n <= Len(m.inputs) /\ utxos = [k \in 1..n |-> utxos[k]]
  BY <1>2, UtxosInOrder
<1>4. m.tx.inputs = [i \in DOMAIN utxos |-> utxos[i].txo] /\ m.tx.programs = UniquePrograms(utxos)
  BY <1>1 DEF NewTransaction
<1> HIDE DEF utxos, n
<1>5. DOMAIN utxos = 1..n
  BY <1>3
<1>6. Len(m.tx.inputs) = n
  BY <1>3, <1>4, <1>5
<1>7. Len(m.tx.programs) \in Nat /\ Len(m.tx.programs) <= n
  BY <1>3, <1>4, <1>5, ProgramsAreFew
<1>8. Len(m.tx.inputs) <= MaxInputs
  <2>1. Len(m.inputs) \in Nat
    BY <1>2
  <2>. QED BY <1>2, <1>3, <1>6, <2>1, AddressAssumption
<1>9. ASSUME NEW i \in DOMAIN m.tx.outputs PROVE m.tx.outputs[i].amount \in Int
  <2>1. WellMade(m.chain, m.tx)
    BY <1>1, NewIsWellMade DEF MadeBy
  <2>2. PICK out : GoodOutputs(m.chain, m.tx.type, out)
                   /\ m.tx.outputs = [j \in DOMAIN out |-> TransactionOutput(out[j])]
    BY <2>1 DEF WellMade
  <2>3. m.tx.outputs[i].amount = out[i].amount /\ i \in DOMAIN out
    BY <1>9, <2>2 DEF TransactionOutput
  <2>. QED BY <2>2, <2>3 DEF GoodOutputs, GoodOutput
<1>. QED BY <1>6, <1>7, <1>8, <1>9

\* The host has JSON for the chain a transaction was made for, with a fee that is a word
\* and no more programs than inputs, and every call answers one of the outcomes.
THEOREM TransactionsTypeOK == Spec => []TypeOK
<1>1. BytesInv /\ MadeInv => TypeOK
  <2> SUFFICES ASSUME BytesInv, MadeInv PROVE TypeOK
    OBVIOUS
  <2>1. outcome \in Outcomes /\ ((made = None) <=> (encoded = None))
    BY DEF BytesInv, MadeInv
  <2>2. ASSUME encoded # None
        PROVE  /\ encoded.ChainID = made.chain /\ encoded.Fee \in 0..(Word - 1)
               /\ \A i \in DOMAIN made.tx.outputs : made.tx.outputs[i].amount \in Int
               /\ Len(made.tx.programs) <= Len(made.tx.inputs) /\ Len(made.tx.inputs) <= MaxInputs
    <3>1. made # None
      BY <2>2 DEF BytesInv
    <3>2. encoded.ChainID = made.chain
      BY <3>1 DEF BytesInv
    <3>3. MadeBy(made) /\ encoded.Fee = GetUint64(made.fee)
      BY <3>1 DEF MadeInv
    <3>4. made.fee \in Int
      BY <3>3 DEF MadeBy
    <3>5. GetUint64(made.fee) \in 0..(Word - 1)
      BY <3>4, WordAssumption DEF GetUint64
    <3>. QED BY <3>2, <3>3, <3>5, MadeTypes
  <2>. QED BY <2>1, <2>2 DEF TypeOK, Outcomes
<1>. QED BY <1>1, BytesInvariant, MadeInvariant, PTL

\* What WireBalanced says of a transaction and the fee.
Balanced(m, outputs, spent, fee) ==
  LET amount(t) == m.inputs[FirstEntry(m.inputs, t)].amount
      total == Total([i \in DOMAIN spent |-> amount(spent[i])])
  IN  /\ IsInjective(spent)
      /\ m.fee >= 0 /\ total < Word /\ (\A i \in DOMAIN m.requested : m.requested[i].amount >= 0)
           => total = Total([i \in DOMAIN outputs |-> outputs[i][1][2]]) + fee
      /\ \A i \in DOMAIN outputs : i > Len(m.requested) => outputs[i][2][2] \in Owned

LEMMA MadeBalanced ==
  ASSUME NEW m, MadeBy(m)
  PROVE  Balanced(m, OutputsBytes(m.tx), m.tx.inputs, GetUint64(m.fee))
<1> DEFINE utxos == UTXOFromJson(m.inputs)
           u == Cardinality(Txos(m.inputs))
           spent == m.tx.inputs
           outputs == OutputsBytes(m.tx)
           amount(t) == m.inputs[FirstEntry(m.inputs, t)].amount
<1>1. m.chain \in Chains /\ m.fee \in Int /\ \A i \in DOMAIN m.inputs : m.inputs[i].amount >= 0
  BY DEF MadeBy
<1>2. PICK plan, memo :
        /\ GoodPlan(m.chain, plan) /\ m.requested = plan.outputs
        /\ m.tx = NewTransaction(m.chain, utxos, plan, m.fee, memo)
        /\ Result(utxos, plan, m.tx, m.fee) = "created"
  BY DEF MadeBy
<1>3. m.inputs \in Seq(Utxos)
  BY SeqOfIsSeq, AddressAssumption DEF MadeBy
<1>4. /\ u \in Nat /\ utxos = [k \in 1..u |-> utxos[k]]
      /\ \A k \in 1..u : utxos[k] = m.inputs[FirstEntry(m.inputs, utxos[k].txo)]
      /\ \A k, l \in 1..u : utxos[k].txo = utxos[l].txo => k = l
  BY <1>3, UtxosInOrder
<1> DEFINE all == plan.outputs \o Change(utxos, plan, m.fee)
           n == Len(plan.outputs)
<1>5. /\ GoodOutputs(m.chain, plan.type, all) /\ n \in Nat /\ Len(all) \in {n, n + 1}
      /\ \A i \in 1..n : all[i] = plan.outputs[i]
      /\ TotalInput(utxos) \in Nat /\ TotalOutput(plan.outputs) \in Int
      /\ TotalOutput(all) + m.fee = TotalInput(utxos)
      /\ TotalOutput(plan.outputs) + m.fee <= TotalInput(utxos)
      /\ Len(all) = n + 1 => all[n + 1].amount \in Nat /\ all[n + 1].address \in Owned
  <2>1. Result(UTXOFromJson(m.inputs), plan,
               NewTransaction(m.chain, UTXOFromJson(m.inputs), plan, m.fee, memo), m.fee) = "created"
    BY <1>2, Zenon
  <2>2. GoodPlan(m.chain, plan)
    BY <1>2
  <2>3. Paid(m.chain, UTXOFromJson(m.inputs), plan, m.fee)
    BY <1>1, <1>3, <2>1, <2>2, ChangeBalances
  <2>. QED BY <2>3 DEF Paid
<1>6. /\ spent = [i \in DOMAIN utxos |-> utxos[i].txo] /\ m.tx.version = VersionOf(m.chain)
      /\ m.tx.outputs = [i \in DOMAIN all |-> TransactionOutput(all[i])]
  <2> DEFINE tx == NewTransaction(m.chain, utxos, plan, m.fee, memo)
  <2>1. /\ tx.inputs = [i \in DOMAIN utxos |-> utxos[i].txo] /\ tx.version = VersionOf(m.chain)
        /\ tx.outputs = [i \in DOMAIN all |-> TransactionOutput(all[i])]
    BY DEF NewTransaction, VersionOf
  <2>2. m.tx = tx
    BY <1>2
  <2> HIDE DEF tx, all, utxos
  <2>. QED BY <2>1, <2>2 DEF spent
<1> HIDE DEF utxos, u, spent, all, n
<1>7. DOMAIN utxos = 1..u /\ spent = [k \in 1..u |-> utxos[k].txo]
  BY <1>4, <1>6
<1>8. IsInjective(spent)
  BY <1>4, <1>7 DEF IsInjective
<1>9. Total([i \in DOMAIN spent |-> amount(spent[i])]) = TotalInput(utxos)
  <2>1. [i \in DOMAIN spent |-> amount(spent[i])] = [i \in DOMAIN utxos |-> utxos[i].amount]
    BY <1>4, <1>7
  <2>. QED BY <2>1 DEF TotalInput
<1>10. DOMAIN all = 1..Len(all) /\ Len(all) \in Nat /\ \A i \in DOMAIN all : all[i].amount \in Int
  BY <1>5 DEF GoodOutputs, GoodOutput, IsLayout
<1>10a. n \in Nat /\ (Len(all) = n \/ Len(all) = n + 1)
  BY <1>5
<1>11. outputs = [i \in DOMAIN all |-> OutputSerialize(TransactionOutput(all[i]), VersionOf(m.chain))]
  BY <1>6 DEF OutputsBytes
<1> HIDE DEF outputs
<1>12. /\ DOMAIN outputs = DOMAIN all
       /\ \A i \in DOMAIN all : outputs[i][1][2] = GetUint64(all[i].amount) /\ outputs[i][2][2] = all[i].address
  BY <1>1, <1>5, <1>11, OutputWire DEF GoodOutputs
<1>13. ASSUME NEW i \in DOMAIN outputs, i > Len(m.requested) PROVE outputs[i][2][2] \in Owned
  <2>1. i > n
    BY <1>2, <1>13 DEF n
  <2>2. i = n + 1 /\ Len(all) = n + 1
    <3>1. DOMAIN outputs = DOMAIN all
      BY <1>12
    <3>2. i \in 1..Len(all)
      BY <1>10, <3>1
    <3>. QED BY <1>10a, <2>1, <3>2
  <2>. QED BY <1>5, <1>12, <1>13, <2>2
<1>14. ASSUME m.fee >= 0, TotalInput(utxos) < Word, \A i \in DOMAIN m.requested : m.requested[i].amount >= 0
       PROVE  TotalInput(utxos) = Total([i \in DOMAIN outputs |-> outputs[i][1][2]]) + GetUint64(m.fee)
  <2> DEFINE s == [i \in DOMAIN all |-> all[i].amount]
  <2>1. \A i \in DOMAIN all : all[i].amount \in Nat
    <3>1. DOMAIN plan.outputs = 1..n
      BY <1>2 DEF GoodPlan, GoodOutputs, IsLayout, n
    <3>2. \A i \in 1..n : all[i].amount >= 0
      BY <1>2, <1>5, <1>14, <3>1
    <3>3. ASSUME NEW i \in DOMAIN all PROVE i \in 1..n \/ (i = n + 1 /\ Len(all) = n + 1)
      <4>1. i \in 1..Len(all)
        BY <1>10, <3>3
      <4>. QED BY <1>10a, <4>1
    <3>4. ASSUME NEW i \in DOMAIN all PROVE all[i].amount \in Nat
      <4>1. CASE i \in 1..n
        BY <1>10, <3>2, <3>4, <4>1
      <4>2. CASE i = n + 1 /\ Len(all) = n + 1
        BY <1>5, <4>2
      <4>. QED BY <3>3, <4>1, <4>2
    <3>. QED BY <3>4
  <2>2. s \in Seq(Nat) /\ Len(s) = Len(all)
    BY <1>10, <2>1
  <2>3. Total(s) \in Nat /\ \A i \in 1..Len(all) : s[i] <= Total(s)
    BY <2>2, TotalNat
  <2>4. TotalOutput(all) = Total(s)
    BY DEF TotalOutput
  <2>5. Total(s) + m.fee = TotalInput(utxos)
    BY <1>5, <2>4
  <2>6. m.fee \in Nat /\ m.fee < Word /\ Total(s) < Word
    BY <1>1, <1>5, <1>14, <2>3, <2>5, WordAssumption
  <2>7. GetUint64(m.fee) = m.fee
    BY <2>6, GetUint64Fits
  <2>8. ASSUME NEW i \in DOMAIN all PROVE outputs[i][1][2] = s[i]
    <3>1. s[i] = all[i].amount /\ all[i].amount \in Nat /\ s[i] <= Total(s)
      BY <1>10, <2>1, <2>3
    <3> HIDE DEF s
    <3>2. all[i].amount < Word
      BY <2>3, <2>6, <3>1, WordAssumption
    <3>. QED BY <1>12, <3>1, <3>2, GetUint64Fits
  <2>9. [i \in DOMAIN outputs |-> outputs[i][1][2]] = s
    BY <1>12, <2>8
  <2> HIDE DEF s
  <2>. QED BY <2>5, <2>7, <2>9
<1>. QED BY <1>8, <1>9, <1>13, <1>14 DEF Balanced, spent, outputs

\* Nothing is lost between the integers and the words: each transaction output is spent
\* once, the amounts in the bytes and the fee in the JSON add up to the inputs, and the
\* change goes to an address of the wallet, for any number of inputs, any word and any
\* amounts, as long as the fee and the outputs asked for are not negative and the inputs
\* are below the word (Wallet::CreateTransaction, TransactionOutput::Serialize).
THEOREM WireIsBalanced == Spec => []WireBalanced
<1>1. BytesInv /\ MadeInv => WireBalanced
  <2> SUFFICES ASSUME BytesInv, MadeInv, made # None PROVE WireBalanced
    BY DEF WireBalanced
  <2> DEFINE bytes == UnsignedBytes(encoded.Data)
  <2>1. WellMade(made.chain, made.tx) /\ Carries(made.tx, encoded.Data)
    BY DEF BytesInv
  <2>2. bytes = SerializeUnsigned(made.tx)
    BY <2>1, CarriedBytes
  <2>3. bytes[Len(bytes)][2] = OutputsBytes(made.tx) /\ bytes[Len(bytes) - 1][2] = made.tx.inputs
    <3> HIDE DEF bytes
    <3>. QED BY <2>1, <2>2, UnsignedTail
  <2>4. Balanced(made, OutputsBytes(made.tx), made.tx.inputs, encoded.Fee)
    BY MadeBalanced DEF MadeInv
  <2>5. Balanced(made, bytes[Len(bytes)][2], bytes[Len(bytes) - 1][2], encoded.Fee)
    BY <2>3, <2>4
  <2>. QED BY <2>5 DEF Balanced, WireBalanced, FirstEntry
<1>. QED BY <1>1, BytesInvariant, MadeInvariant, PTL
=============================================================================
