--------------------------- MODULE MessagesBitcoin --------------------------
(* Bitcoin messages.                                                       *)
(* One definition per generated struct of the client: its fields in the    *)
(* order they are written, and the default its getter gives.               *)
EXTENDS ProtoFields

RequestType == 0 .. 7
InputScriptType == 0 .. 5
OutputScriptType == 0 .. 6
DecredStakingSpendType == 0 .. 1
AmountUnit == 0 .. 3

MultisigRedeemScriptType ==
  <<Rep(1, "pubkeys", Msg("HDNodePathType")), Rep(2, "signatures", bytes),
    Req(3, "m", uint32), Rep(4, "nodes", Msg("HDNodeType")),
    Rep(5, "address_n", uint32)>>
HDNodePathType ==
  <<Req(1, "node", Msg("HDNodeType")), Rep(2, "address_n", uint32)>>
GetPublicKey ==
  <<Rep(1, "address_n", uint32), Opt(2, "ecdsa_curve_name", string),
    Opt(3, "show_display", bool), Def(4, "coin_name", string, 7),
    Def(5, "script_type", Enum("InputScriptType"), 0),
    Opt(6, "ignore_xpub_magic", bool)>>
PublicKey ==
  <<Req(1, "node", Msg("HDNodeType")), Req(2, "xpub", string),
    Opt(3, "root_fingerprint", uint32), Opt(4, "descriptor", string)>>
GetAddress ==
  <<Rep(1, "address_n", uint32), Def(2, "coin_name", string, 7),
    Opt(3, "show_display", bool),
    Opt(4, "multisig", Msg("MultisigRedeemScriptType")),
    Def(5, "script_type", Enum("InputScriptType"), 0),
    Opt(6, "ignore_xpub_magic", bool), Opt(7, "chunkify", bool)>>
Address == <<Req(1, "address", string), Opt(2, "mac", bytes)>>
GetOwnershipId ==
  <<Rep(1, "address_n", uint32), Def(2, "coin_name", string, 7),
    Opt(3, "multisig", Msg("MultisigRedeemScriptType")),
    Def(4, "script_type", Enum("InputScriptType"), 0)>>
OwnershipId == <<Req(1, "ownership_id", bytes)>>
SignMessage ==
  <<Rep(1, "address_n", uint32), Req(2, "message", bytes),
    Def(3, "coin_name", string, 7),
    Def(4, "script_type", Enum("InputScriptType"), 0),
    Opt(5, "no_script_type", bool), Opt(6, "chunkify", bool)>>
MessageSignature == <<Req(1, "address", string), Req(2, "signature", bytes)>>
VerifyMessage ==
  <<Req(1, "address", string), Req(2, "signature", bytes),
    Req(3, "message", bytes), Def(4, "coin_name", string, 7),
    Opt(5, "chunkify", bool)>>
SignTx ==
  <<Req(1, "outputs_count", uint32), Req(2, "inputs_count", uint32),
    Def(3, "coin_name", string, 7), Def(4, "version", uint32, 1),
    Def(5, "lock_time", uint32, 0), Opt(6, "expiry", uint32),
    Opt(7, "overwintered", bool), Opt(8, "version_group_id", uint32),
    Opt(9, "timestamp", uint32), Opt(10, "branch_id", uint32),
    Def(11, "amount_unit", Enum("AmountUnit"), 0),
    Def(12, "decred_staking_ticket", bool, FALSE),
    Def(13, "serialize", bool, TRUE),
    Opt(14, "coinjoin_request", Msg("CoinJoinRequest")),
    Opt(15, "chunkify", bool)>>
CoinJoinRequest ==
  <<Req(1, "fee_rate", uint32), Req(2, "no_fee_threshold", uint64),
    Req(3, "min_registrable_amount", uint64),
    Opt(4, "mask_public_key", bytes), Opt(5, "signature", bytes)>>
TxRequest ==
  <<Opt(1, "request_type", Enum("RequestType")),
    Opt(2, "details", Msg("TxRequestDetailsType")),
    Opt(3, "serialized", Msg("TxRequestSerializedType"))>>
TxRequestDetailsType ==
  <<Opt(1, "request_index", uint32), Opt(2, "tx_hash", bytes),
    Opt(3, "extra_data_len", uint32), Opt(4, "extra_data_offset", uint32)>>
TxRequestSerializedType ==
  <<Opt(1, "signature_index", uint32), Opt(2, "signature", bytes),
    Opt(3, "serialized_tx", bytes)>>
TxAck == <<Opt(1, "tx", Msg("TransactionType"))>>
TransactionType ==
  <<Opt(1, "version", uint32), Rep(2, "inputs", Msg("TxInputType")),
    Rep(3, "bin_outputs", Msg("TxOutputBinType")),
    Opt(4, "lock_time", uint32), Rep(5, "outputs", Msg("TxOutputType")),
    Opt(6, "inputs_cnt", uint32), Opt(7, "outputs_cnt", uint32),
    Opt(8, "extra_data", bytes), Opt(9, "extra_data_len", uint32),
    Opt(10, "expiry", uint32), Opt(11, "overwintered", bool),
    Opt(12, "version_group_id", uint32), Opt(13, "timestamp", uint32),
    Opt(14, "branch_id", uint32)>>
TxInputType ==
  <<Rep(1, "address_n", uint32), Req(2, "prev_hash", bytes),
    Req(3, "prev_index", uint32), Opt(4, "script_sig", bytes),
    Def(5, "sequence", uint32, U32_MAX),
    Def(6, "script_type", Enum("InputScriptType"), 0),
    Opt(7, "multisig", Msg("MultisigRedeemScriptType")),
    Opt(8, "amount", uint64), Opt(9, "decred_tree", uint32),
    Opt(13, "witness", bytes), Opt(14, "ownership_proof", bytes),
    Opt(15, "commitment_data", bytes), Opt(16, "orig_hash", bytes),
    Opt(17, "orig_index", uint32),
    Opt(18, "decred_staking_spend", Enum("DecredStakingSpendType")),
    Opt(19, "script_pubkey", bytes), Def(20, "coinjoin_flags", uint32, 0)>>
TxOutputBinType ==
  <<Req(1, "amount", uint64), Req(2, "script_pubkey", bytes),
    Opt(3, "decred_script_version", uint32)>>
TxOutputType ==
  <<Opt(1, "address", string), Rep(2, "address_n", uint32),
    Req(3, "amount", uint64),
    Def(4, "script_type", Enum("OutputScriptType"), 0),
    Opt(5, "multisig", Msg("MultisigRedeemScriptType")),
    Opt(6, "op_return_data", bytes), Opt(10, "orig_hash", bytes),
    Opt(11, "orig_index", uint32), Opt(12, "payment_req_index", uint32)>>
TxInput ==
  <<Rep(1, "address_n", uint32), Req(2, "prev_hash", bytes),
    Req(3, "prev_index", uint32), Opt(4, "script_sig", bytes),
    Def(5, "sequence", uint32, U32_MAX),
    Def(6, "script_type", Enum("InputScriptType"), 0),
    Opt(7, "multisig", Msg("MultisigRedeemScriptType")),
    Req(8, "amount", uint64), Opt(9, "decred_tree", uint32),
    Opt(13, "witness", bytes), Opt(14, "ownership_proof", bytes),
    Opt(15, "commitment_data", bytes), Opt(16, "orig_hash", bytes),
    Opt(17, "orig_index", uint32),
    Opt(18, "decred_staking_spend", Enum("DecredStakingSpendType")),
    Opt(19, "script_pubkey", bytes), Def(20, "coinjoin_flags", uint32, 0)>>
TxOutput ==
  <<Opt(1, "address", string), Rep(2, "address_n", uint32),
    Req(3, "amount", uint64),
    Def(4, "script_type", Enum("OutputScriptType"), 0),
    Opt(5, "multisig", Msg("MultisigRedeemScriptType")),
    Opt(6, "op_return_data", bytes), Opt(10, "orig_hash", bytes),
    Opt(11, "orig_index", uint32), Opt(12, "payment_req_index", uint32)>>
PrevTx ==
  <<Req(1, "version", uint32), Req(4, "lock_time", uint32),
    Req(6, "inputs_count", uint32), Req(7, "outputs_count", uint32),
    Def(9, "extra_data_len", uint32, 0), Opt(10, "expiry", uint32),
    Opt(12, "version_group_id", uint32), Opt(13, "timestamp", uint32),
    Opt(14, "branch_id", uint32)>>
PrevInput ==
  <<Req(2, "prev_hash", bytes), Req(3, "prev_index", uint32),
    Req(4, "script_sig", bytes), Req(5, "sequence", uint32),
    Opt(9, "decred_tree", uint32)>>
PrevOutput ==
  <<Req(1, "amount", uint64), Req(2, "script_pubkey", bytes),
    Opt(3, "decred_script_version", uint32)>>
TxAckPaymentRequest ==
  <<Opt(1, "nonce", bytes), Req(2, "recipient_name", string),
    Rep(3, "memos", Msg("PaymentRequestMemo")), Opt(4, "amount", uint64),
    Req(5, "signature", bytes)>>
PaymentRequestMemo ==
  <<Opt(1, "text_memo", Msg("TextMemo")),
    Opt(2, "refund_memo", Msg("RefundMemo")),
    Opt(3, "coin_purchase_memo", Msg("CoinPurchaseMemo"))>>
TextMemo == <<Req(1, "text", string)>>
RefundMemo == <<Req(1, "address", string), Req(2, "mac", bytes)>>
CoinPurchaseMemo ==
  <<Req(1, "coin_type", uint32), Req(2, "amount", string),
    Req(3, "address", string), Req(4, "mac", bytes)>>
TxAckInput == <<Req(1, "tx", Msg("TxAckInputWrapper"))>>
TxAckInputWrapper == <<Req(2, "input", Msg("TxInput"))>>
TxAckOutput == <<Req(1, "tx", Msg("TxAckOutputWrapper"))>>
TxAckOutputWrapper == <<Req(5, "output", Msg("TxOutput"))>>
TxAckPrevMeta == <<Req(1, "tx", Msg("PrevTx"))>>
TxAckPrevInput == <<Req(1, "tx", Msg("TxAckPrevInputWrapper"))>>
TxAckPrevInputWrapper == <<Req(2, "input", Msg("PrevInput"))>>
TxAckPrevOutput == <<Req(1, "tx", Msg("TxAckPrevOutputWrapper"))>>
TxAckPrevOutputWrapper == <<Req(3, "output", Msg("PrevOutput"))>>
TxAckPrevExtraData == <<Req(1, "tx", Msg("TxAckPrevExtraDataWrapper"))>>
TxAckPrevExtraDataWrapper == <<Req(8, "extra_data_chunk", bytes)>>
GetOwnershipProof ==
  <<Rep(1, "address_n", uint32), Def(2, "coin_name", string, 7),
    Def(3, "script_type", Enum("InputScriptType"), 3),
    Opt(4, "multisig", Msg("MultisigRedeemScriptType")),
    Def(5, "user_confirmation", bool, FALSE), Rep(6, "ownership_ids", bytes),
    Def(7, "commitment_data", bytes, 0)>>
OwnershipProof ==
  <<Req(1, "ownership_proof", bytes), Req(2, "signature", bytes)>>
AuthorizeCoinJoin ==
  <<Req(1, "coordinator", string), Req(2, "max_rounds", uint64),
    Req(3, "max_coordinator_fee_rate", uint32),
    Req(4, "max_fee_per_kvbyte", uint32), Rep(5, "address_n", uint32),
    Def(6, "coin_name", string, 7),
    Def(7, "script_type", Enum("InputScriptType"), 0),
    Def(8, "amount_unit", Enum("AmountUnit"), 0)>>

(* The definitions by their names.                                         *)
BitcoinEnums ==
  [RequestType |-> RequestType, InputScriptType |-> InputScriptType,
   OutputScriptType |-> OutputScriptType,
   DecredStakingSpendType |-> DecredStakingSpendType,
   AmountUnit |-> AmountUnit]
BitcoinMessages ==
  [MultisigRedeemScriptType |-> MultisigRedeemScriptType,
   HDNodePathType |-> HDNodePathType, GetPublicKey |-> GetPublicKey,
   PublicKey |-> PublicKey, GetAddress |-> GetAddress, Address |-> Address,
   GetOwnershipId |-> GetOwnershipId, OwnershipId |-> OwnershipId,
   SignMessage |-> SignMessage, MessageSignature |-> MessageSignature,
   VerifyMessage |-> VerifyMessage, SignTx |-> SignTx,
   CoinJoinRequest |-> CoinJoinRequest, TxRequest |-> TxRequest,
   TxRequestDetailsType |-> TxRequestDetailsType,
   TxRequestSerializedType |-> TxRequestSerializedType, TxAck |-> TxAck,
   TransactionType |-> TransactionType, TxInputType |-> TxInputType,
   TxOutputBinType |-> TxOutputBinType, TxOutputType |-> TxOutputType,
   TxInput |-> TxInput, TxOutput |-> TxOutput, PrevTx |-> PrevTx,
   PrevInput |-> PrevInput, PrevOutput |-> PrevOutput,
   TxAckPaymentRequest |-> TxAckPaymentRequest,
   PaymentRequestMemo |-> PaymentRequestMemo, TextMemo |-> TextMemo,
   RefundMemo |-> RefundMemo, CoinPurchaseMemo |-> CoinPurchaseMemo,
   TxAckInput |-> TxAckInput, TxAckInputWrapper |-> TxAckInputWrapper,
   TxAckOutput |-> TxAckOutput, TxAckOutputWrapper |-> TxAckOutputWrapper,
   TxAckPrevMeta |-> TxAckPrevMeta, TxAckPrevInput |-> TxAckPrevInput,
   TxAckPrevInputWrapper |-> TxAckPrevInputWrapper,
   TxAckPrevOutput |-> TxAckPrevOutput,
   TxAckPrevOutputWrapper |-> TxAckPrevOutputWrapper,
   TxAckPrevExtraData |-> TxAckPrevExtraData,
   TxAckPrevExtraDataWrapper |-> TxAckPrevExtraDataWrapper,
   GetOwnershipProof |-> GetOwnershipProof, OwnershipProof |-> OwnershipProof,
   AuthorizeCoinJoin |-> AuthorizeCoinJoin]
=============================================================================
