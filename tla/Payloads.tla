------------------------------ MODULE Payloads ------------------------------
(***************************************************************************)
(* The classes of src/SDK/Plugin/Transaction that a transaction is made    *)
(* of, one operator per class.  For a payload version it gives             *)
(*   Serialize, Deserialize   the calls that write and read the bytes,     *)
(*   ToJson, FromJson         the keys written and read,                   *)
(*   Copy                     the members operator= copies,                *)
(*   Equal                    the members Equal (operator==) compares,     *)
(*   Comparable               FALSE where Equal finds nothing equal,       *)
(*   EstimateSize             the calls whose bytes are counted.           *)
(* Where two of these functions go through the same members in the same    *)
(* order the list is written once.  CRCProposal has a module of its own.   *)
(***************************************************************************)
EXTENDS Layout

\* A class without members: every conversion is trivial.
Empty ==
  [Serialize |-> <<>>, Deserialize |-> <<>>, ToJson |-> <<>>, FromJson |-> <<>>,
   Copy |-> {}, Equal |-> {}, Comparable |-> TRUE, EstimateSize |-> <<>>]

\* A class whose functions all agree on one list of calls and one of keys.
Uniform(wire, json) ==
  [Serialize |-> wire, Deserialize |-> wire, ToJson |-> json, FromJson |-> json,
   Copy |-> MembersOf(wire), Equal |-> MembersOf(wire), Comparable |-> TRUE,
   EstimateSize |-> wire]

-----------------------------------------------------------------------------
(* Payloads of the main chain and of the old side chains *)

CoinBase(v) ==
  Uniform(<<VarBytes("coinBaseData")>>, << <<"CoinBaseData", "coinBaseData">> >>)

Asset(v) ==
  Uniform(<<VarBytes("name"), VarBytes("description"), Uint8("precision"),
            Uint8("assetType"), Uint8("recordType")>>,
          << <<"Name", "name">>, <<"Description", "description">>, <<"Precision", "precision">>,
             <<"AssetType", "assetType">>, <<"RecordType", "recordType">> >>)

RegisterAsset(v) ==
  Uniform(<<Nested("Asset", "asset"), Uint64("amount"), Hash168("controller")>>,
          << <<"Asset", "asset">>, <<"Amount", "amount">>, <<"Controller", "controller">> >>)

TransferAsset(v) == Empty

Record(v) ==
  Uniform(<<VarBytes("recordType"), VarBytes("recordData")>>,
          << <<"RecordType", "recordType">>, <<"RecordData", "recordData">> >>)

SideChainPow(v) ==
  Uniform(<<Hash256("sideBlockHash"), Hash256("sideGenesisHash"), Uint32("blockHeight"),
            VarBytes("signedData")>>,
          << <<"SideBlockHash", "sideBlockHash">>, <<"SideGenesisHash", "sideGenesisHash">>,
             <<"BlockHeight", "blockHeight">>, <<"SignedData", "signedData">> >>)

\* Only versions V0 and V1 exist: another one writes nothing, is refused when
\* it is read, and is equal to nothing.
RechargeToSideChain(v) ==
  LET wire == When(v = 0, <<VarBytes("merkeProof"), VarBytes("mainChainTransaction")>>)
              \o When(v = 1, <<Hash256("mainChainTxHash")>>)
      json == When(v = 0, << <<"MerkleProof", "merkeProof">>,
                             <<"MainChainTransaction", "mainChainTransaction">> >>)
              \o When(v = 1, << <<"MainChainTxHash", "mainChainTxHash">> >>)
  IN  [Uniform(wire, json) EXCEPT
         !.Deserialize = IF v \in {0, 1} THEN wire ELSE Refuse,
         !.Copy = {"merkeProof", "mainChainTransaction", "mainChainTxHash"},
         !.Comparable = v \in {0, 1}]

WithdrawFromSideChain(v) ==
  Uniform(<<Uint32("blockHeight"), VarBytes("genesisBlockAddress"),
            Nested("Hash256[]", "sideChainTransactionHash")>>,
          << <<"BlockHeight", "blockHeight">>, <<"GenesisBlockAddress", "genesisBlockAddress">>,
             <<"SideChainTransactionHash", "sideChainTransactionHash">> >>)

\* The elements of TransferCrossChainAsset: EstimateSize counts two bytes for
\* the index and forgets the amount.
TransferInfo(v) ==
  [Uniform(<<VarBytes("crossChainAddress"), VarUint("outputIndex"), Uint64("crossChainAmount")>>,
           << <<"CrossChainAddress", "crossChainAddress">>, <<"OutputIndex", "outputIndex">>,
              <<"CrossChainAmount", "crossChainAmount">> >>)
   EXCEPT !.EstimateSize =
     <<VarBytes("crossChainAddress"), VarUint("outputIndex"), Uint16("outputIndex")>>]

\* Version 1 has moved to the outputs: the payload is empty and all are equal.
\* An unknown version is as empty, but equal to nothing.
TransferCrossChainAsset(v) ==
  [Uniform(When(v = 0, <<Nested("TransferInfo[]", "info")>>), When(v = 0, << <<"", "info">> >>))
   EXCEPT !.Copy = {"info"}, !.Comparable = v \in {0, 1}]

ProducerInfo(v) ==
  Uniform(<<VarBytes("ownerPublicKey"), VarBytes("nodePublicKey"), VarBytes("nickName"),
            VarBytes("url"), Uint64("location"), VarBytes("address"), VarBytes("signature")>>,
          << <<"OwnerPublicKey", "ownerPublicKey">>, <<"NodePublicKey", "nodePublicKey">>,
             <<"NickName", "nickName">>, <<"Url", "url">>, <<"Location", "location">>,
             <<"Address", "address">>, <<"Signature", "signature">> >>)

\* Mutant: Equal forgets the signature.
CancelProducerEqual(v) ==
  [Uniform(<<VarBytes("publicKey"), VarBytes("signature")>>,
           << <<"PublicKey", "publicKey">>, <<"Signature", "signature">> >>)
   EXCEPT !.Equal = {"publicKey"}]

CancelProducer(v) ==
  Uniform(<<VarBytes("publicKey"), VarBytes("signature")>>,
          << <<"PublicKey", "publicKey">>, <<"Signature", "signature">> >>)

ReturnDepositCoin(v) == Empty

NextTurnDPoSInfo(v) ==
  Uniform(<<Uint32("workingHeight"), Nested("VarBytes[]", "crPublicKeys"),
            Nested("VarBytes[]", "dposPublicKeys")>>,
          << <<"WorkingHeight", "workingHeight">>, <<"CRPublicKeys", "crPublicKeys">>,
             <<"DPoSPublicKeys", "dposPublicKeys">> >>)

-----------------------------------------------------------------------------
(* Payloads of the CR council *)

CRInfoVersion    == 0
CRInfoDIDVersion == 1

\* Equal compares the DID only above CRInfoDIDVersion, the highest version
\* there is; the bytes hold it from CRInfoDIDVersion on.
CRInfo(v) ==
  LET wire == <<VarBytes("code"), Hash168("cid")>> \o When(v > CRInfoVersion, <<Hash168("did")>>)
              \o <<VarBytes("nickName"), VarBytes("url"), Uint64("location"), VarBytes("signature")>>
      json == << <<"Code", "code">>, <<"CID", "cid">>, <<"DID", "did">>, <<"NickName", "nickName">>,
                 <<"Url", "url">>, <<"Location", "location">>, <<"Signature", "signature">> >>
  IN  [Uniform(wire, json) EXCEPT
         !.Copy  = MembersOf(wire) \cup {"did"},
         !.Equal = (MembersOf(wire) \ {"did"}) \cup IF v > CRInfoDIDVersion THEN {"did"} ELSE {}]

UnregisterCR(v) ==
  Uniform(<<Hash168("cid"), VarBytes("signature")>>, << <<"CID", "cid">>, <<"Signature", "signature">> >>)

CRCouncilMemberClaimNode(v) ==
  Uniform(<<VarBytes("nodePublicKey"), Hash168("crCouncilMemberDID"),
            VarBytes("crCouncilMemberSignature")>>,
          << <<"NodePublicKey", "nodePublicKey">>, <<"CRCouncilMemberDID", "crCouncilMemberDID">>,
             <<"CRCouncilMemberSignature", "crCouncilMemberSignature">> >>)

CRCAssetsRectify(v) == Empty

\* The size estimate counts two bytes too many.
CRCProposalRealWithdraw(v) ==
  [Uniform(<<Nested("Hash256[]", "withdrawTxHashes")>>, << <<"WithdrawTxHashes", "withdrawTxHashes">> >>)
   EXCEPT !.EstimateSize = <<Uint16(Unset), Nested("Hash256[]", "withdrawTxHashes")>>]

CRCProposalReview(v) ==
  LET wire == <<Hash256("proposalHash"), Uint8("voteResult"), Hash256("opinionHash")>>
              \o When(v >= 1, <<VarBytes("opinionData")>>)
              \o <<Hash168("did"), VarBytes("signature")>>
      json == << <<"ProposalHash", "proposalHash">>, <<"VoteResult", "voteResult">>,
                 <<"OpinionHash", "opinionHash">> >>
              \o When(v >= 1, << <<"OpinionData", "opinionData">> >>)
              \o << <<"DID", "did">>, <<"Signature", "signature">> >>
  IN  [Uniform(wire, json) EXCEPT !.Copy = MembersOf(wire) \cup {"opinionData"}]

\* Three parties sign a tracking payload in turn, each over what is written up
\* to it: the owner, a new owner, the secretary general.
TrackingOwnerUnsigned(v) ==
  <<Hash256("proposalHash"), Hash256("messageHash")>> \o When(v >= 1, <<VarBytes("messageData")>>)
  \o <<Uint8("stage"), VarBytes("ownerPubKey"), VarBytes("newOwnerPubKey")>>

TrackingNewOwnerUnsigned(v) == TrackingOwnerUnsigned(v) \o <<VarBytes("ownerSign")>>

TrackingSecretaryUnsigned(v) ==
  TrackingNewOwnerUnsigned(v)
  \o <<VarBytes("newOwnerSign"), Uint8("type"), Hash256("secretaryGeneralOpinionHash")>>
  \o When(v >= 1, <<VarBytes("secretaryGeneralOpinionData")>>)

CRCProposalTracking(v) ==
  LET wire == TrackingSecretaryUnsigned(v) \o <<VarBytes("secretaryGeneralSignature")>>
      read == <<Hash256("proposalHash"), Hash256("messageHash")>>
              \o When(v >= 1, <<VarBytes("messageData")>>)
              \o <<Uint8("stage"), VarBytes("ownerPubKey"), VarBytes("newOwnerPubKey"),
                   VarBytes("ownerSign"), VarBytes("newOwnerSign"), Uint8("type"),
                   Hash256("secretaryGeneralOpinionHash")>>
              \o When(v >= 1, <<VarBytes("secretaryGeneralOpinionData")>>)
              \o <<VarBytes("secretaryGeneralSignature")>>
      json == << <<"ProposalHash", "proposalHash">>, <<"MessageHash", "messageHash">> >>
              \o When(v >= 1, << <<"MessageData", "messageData">> >>)
              \o << <<"Stage", "stage">>, <<"OwnerPublicKey", "ownerPubKey">>,
                    <<"NewOwnerPublicKey", "newOwnerPubKey">>, <<"OwnerSignature", "ownerSign">>,
                    <<"NewOwnerSignature", "newOwnerSign">>, <<"Type", "type">>,
                    <<"SecretaryGeneralOpinionHash", "secretaryGeneralOpinionHash">> >>
              \o When(v >= 1, << <<"SecretaryGeneralOpinionData", "secretaryGeneralOpinionData">> >>)
              \o << <<"SecretaryGeneralSignature", "secretaryGeneralSignature">> >>
  IN  [Uniform(wire, json) EXCEPT
         !.Deserialize = read,
         !.Copy = MembersOf(wire) \cup {"messageData", "secretaryGeneralOpinionData"}]

\* Equal compares the recipient and the amount from version 1 on, the other
\* functions know them in version 1 only.
CRCProposalWithdraw(v) ==
  LET wire == <<Hash256("proposalHash"), VarBytes("ownerPubkey")>>
              \o When(v = 1, <<Hash168("recipient"), Uint64("amount")>>) \o <<VarBytes("signature")>>
      json == << <<"ProposalHash", "proposalHash">>, <<"OwnerPublicKey", "ownerPubkey">> >>
              \o When(v = 1, << <<"Recipient", "recipient">>, <<"Amount", "amount">> >>)
              \o << <<"Signature", "signature">> >>
  IN  [Uniform(wire, json) EXCEPT
         !.Copy  = MembersOf(wire) \cup {"recipient", "amount"},
         !.Equal = MembersOf(wire) \cup IF v >= 1 THEN {"recipient", "amount"} ELSE {}]

CRCAppropriation(v) == Empty

-----------------------------------------------------------------------------
(* Payloads of DPoS 2.0 staking *)

VotesWithLockTime(v) ==
  Uniform(<<VarBytes("candidate"), Uint64("votes"), Uint32("lockTime")>>,
          << <<"Candidate", "candidate">>, <<"Votes", "votes">>, <<"Locktime", "lockTime">> >>)

VotesContent(v) ==
  Uniform(<<Uint8("voteType"), Nested("VotesWithLockTime[]", "votesInfo")>>,
          << <<"VoteType", "voteType">>, <<"VotesInfo", "votesInfo">> >>)

RenewalVotesContent(v) ==
  Uniform(<<Hash256("referKey"), Nested("VotesWithLockTime", "voteInfo")>>,
          << <<"ReferKey", "referKey">>, <<"VoteInfo", "voteInfo">> >>)

Voting(v) ==
  LET wire == When(v = 0, <<Nested("VotesContent[]", "contents")>>)
              \o When(v = 1, <<Nested("RenewalVotesContent[]", "renewalVotesContent")>>)
      json == When(v = 0, << <<"Contents", "contents">> >>)
              \o When(v = 1, << <<"RenewalVotesContent", "renewalVotesContent">> >>)
  IN  [Uniform(wire, json) EXCEPT !.Copy = {"contents", "renewalVotesContent"}]

Stake(v) == Empty

\* Mutant: the code and the signature are read in each other's place.
UnstakeReadSwapped(v) ==
  [Uniform(<<Hash168("toAddr"), VarBytes("code"), Uint64("value"), VarBytes("signature")>>,
           << <<"ToAddress", "toAddr">>, <<"Code", "code">>, <<"Value", "value">>,
              <<"Signature", "signature">> >>)
   EXCEPT !.Deserialize = <<Hash168("toAddr"), VarBytes("signature"), Uint64("value"), VarBytes("code")>>]

Unstake(v) ==
  Uniform(<<Hash168("toAddr"), VarBytes("code"), Uint64("value"), VarBytes("signature")>>,
          << <<"ToAddress", "toAddr">>, <<"Code", "code">>, <<"Value", "value">>,
             <<"Signature", "signature">> >>)

DPoSV2ClaimReward(v) ==
  Uniform(<<Uint64("amount"), VarBytes("signature")>>, << <<"Amount", "amount">>, <<"Signature", "signature">> >>)

CancelVotes(v) == Uniform(<<Nested("Hash256[]", "referKeys")>>, << <<"ReferKeys", "referKeys">> >>)

UnstakeRealWithdraw(v) ==
  Uniform(<<Hash256("retVotesTxHash"), Hash168("stakeAddress"), Uint64("value")>>,
          << <<"RetVotesTxHash", "retVotesTxHash">>, <<"StakeAddress", "stakeAddress">>,
             <<"Value", "value">> >>)

DPoSV2ClaimRewardRealWithdraw(v) ==
  Uniform(<<Nested("Hash256[]", "withdrawTxHashes")>>, << <<"WithdrawTxHashes", "withdrawTxHashes">> >>)

-----------------------------------------------------------------------------
(* Payloads of the ID chain *)

RegisterIdentification(v) ==
  Uniform(<<VarBytes("id"), VarBytes("sign"), Nested("SignContent[]", "contents")>>,
          << <<"Id", "id">>, <<"Sign", "sign">>, <<"Contents", "contents">> >>)

\* A header names the transaction it replaces only when the operation is
\* "update"; that, and not the payload version, is what v tells here.
UpdateDID == 1

DIDHeaderInfo(v) ==
  LET wire == <<VarBytes("specification"), VarBytes("operation")>>
              \o When(v = UpdateDID, <<VarBytes("previousTxid")>>)
      json == << <<"specification", "specification">>, <<"operation", "operation">> >>
              \o When(v = UpdateDID, << <<"previousTxid", "previousTxid">> >>)
  IN  [Uniform(wire, json) EXCEPT
         !.Copy  = MembersOf(wire) \cup {"previousTxid"},
         !.Equal = MembersOf(wire) \cup {"previousTxid"}]

DIDProofInfo(v) ==
  Uniform(<<VarBytes("type"), VarBytes("verificationMethod"), VarBytes("signature")>>,
          << <<"type", "type">>, <<"verificationMethod", "verificationMethod">>,
             <<"signature", "signature">> >>)

\* The size estimate forgets the length in front of the DID document.
DIDInfo(v) ==
  [Uniform(<<Nested("DIDHeaderInfo", "header"), VarBytes("payload"), Nested("DIDProofInfo", "proof")>>,
           << <<"header", "header">>, <<"payload", "payload">>, <<"proof", "proof">> >>)
   EXCEPT !.EstimateSize =
     <<Nested("DIDHeaderInfo", "header"), <<"Bytes", "payload">>, Nested("DIDProofInfo", "proof")>>]

-----------------------------------------------------------------------------
(* The payloads of an output, which carry their own version *)

\* The size estimate counts the votes as a variable-length number.
CandidateVotes(v) ==
  LET wire == <<VarBytes("candidate")>> \o When(v >= 1, <<Uint64("votes")>>)
      json == << <<"Candidate", "candidate">> >> \o When(v >= 1, << <<"Votes", "votes">> >>)
  IN  [Uniform(wire, json) EXCEPT
         !.Copy = {"candidate", "votes"},
         !.Equal = {"candidate", "votes"},
         !.EstimateSize = <<VarBytes("candidate")>> \o When(v >= 1, <<VarUint("votes")>>)]

VoteContent(v) ==
  Uniform(<<Uint8("type"), Nested("CandidateVotes[]", "candidates")>>,
          << <<"Type", "type">>, <<"Candidates", "candidates">> >>)

PayloadVote(v) ==
  Uniform(<<Uint8("version"), Nested("VoteContent[]", "content")>>,
          << <<"Version", "version">>, <<"VoteContent", "content">> >>)

PayloadCrossChain(v) ==
  Uniform(<<Uint8("version"), VarBytes("targetAddress"), Uint64("targetAmount"), VarBytes("targetData")>>,
          << <<"Version", "version">>, <<"TargetAddress", "targetAddress">>,
             <<"TargetAmount", "targetAmount">>, <<"TargetData", "targetData">> >>)

\* Mutant: the version is not counted.
PayloadStakeEstimate(v) ==
  [Uniform(<<Uint8("version"), Hash168("stakeAddress")>>,
           << <<"Version", "version">>, <<"StakeAddress", "stakeAddress">> >>)
   EXCEPT !.EstimateSize = <<Hash168("stakeAddress")>>]

PayloadStake(v) ==
  Uniform(<<Uint8("version"), Hash168("stakeAddress")>>,
          << <<"Version", "version">>, <<"StakeAddress", "stakeAddress">> >>)

PayloadDefault(v) == Empty

-----------------------------------------------------------------------------
(* The other parts of a transaction *)

Attribute(v) ==
  Uniform(<<Uint8("usage"), VarBytes("data")>>, << <<"Usage", "usage">>, <<"Data", "data">> >>)

TransactionInput(v) ==
  Uniform(<<Hash256("txHash"), Uint16("index"), Uint32("sequence")>>,
          << <<"TxHash", "txHash">>, <<"Index", "index">>, <<"Sequence", "sequence">> >>)

Program(v) ==
  Uniform(<<VarBytes("parameter"), VarBytes("code")>>, << <<"Parameter", "parameter">>, <<"Code", "code">> >>)
=============================================================================
