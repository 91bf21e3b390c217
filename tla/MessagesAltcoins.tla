-------------------------- MODULE MessagesAltcoins --------------------------
(* Messages of Binance, EOS, NEM, Ripple, Solana, Stellar and Tezos.       *)
(* One definition per generated struct of the client: its fields in the    *)
(* order they are written, and the default its getter gives.               *)
EXTENDS ProtoFields

BinanceOrderType == 0 .. 3
BinanceOrderSide == 0 .. 2
BinanceTimeInForce == 0 .. 3
NEMMosaicLevy == 1 .. 2
NEMSupplyChangeType == 1 .. 2
NEMModificationType == 1 .. 2
NEMImportanceTransferMode == 1 .. 2
StellarMemoType == 0 .. 4
StellarSignerType == 0 .. 2
StellarAssetType == 0 .. 2
TezosContractType == 0 .. 1
TezosBallotType == 0 .. 2

BinanceGetAddress ==
  <<Rep(1, "address_n", uint32), Opt(2, "show_display", bool),
    Opt(3, "chunkify", bool)>>
BinanceAddress == <<Req(1, "address", string)>>
BinanceGetPublicKey ==
  <<Rep(1, "address_n", uint32), Opt(2, "show_display", bool)>>
BinancePublicKey == <<Req(1, "public_key", bytes)>>
BinanceSignTx ==
  <<Rep(1, "address_n", uint32), Req(2, "msg_count", uint32),
    Req(3, "account_number", sint64), Opt(4, "chain_id", string),
    Opt(5, "memo", string), Req(6, "sequence", sint64),
    Req(7, "source", sint64), Opt(8, "chunkify", bool)>>
BinanceTxRequest == <<>>
BinanceTransferMsg ==
  <<Rep(1, "inputs", Msg("BinanceInputOutput")),
    Rep(2, "outputs", Msg("BinanceInputOutput")), Opt(3, "chunkify", bool)>>
BinanceInputOutput ==
  <<Req(1, "address", string), Rep(2, "coins", Msg("BinanceCoin"))>>
BinanceCoin == <<Req(1, "amount", sint64), Req(2, "denom", string)>>
BinanceOrderMsg ==
  <<Opt(1, "id", string), Req(2, "ordertype", Enum("BinanceOrderType")),
    Req(3, "price", sint64), Req(4, "quantity", sint64),
    Opt(5, "sender", string), Req(6, "side", Enum("BinanceOrderSide")),
    Opt(7, "symbol", string),
    Req(8, "timeinforce", Enum("BinanceTimeInForce"))>>
BinanceCancelMsg ==
  <<Opt(1, "refid", string), Opt(2, "sender", string),
    Opt(3, "symbol", string)>>
BinanceSignedTx ==
  <<Req(1, "signature", bytes), Req(2, "public_key", bytes)>>
EosGetPublicKey ==
  <<Rep(1, "address_n", uint32), Opt(2, "show_display", bool),
    Opt(3, "chunkify", bool)>>
EosPublicKey ==
  <<Req(1, "wif_public_key", string), Req(2, "raw_public_key", bytes)>>
EosSignTx ==
  <<Rep(1, "address_n", uint32), Req(2, "chain_id", bytes),
    Req(3, "header", Msg("EosTxHeader")), Req(4, "num_actions", uint32),
    Opt(5, "chunkify", bool)>>
EosTxHeader ==
  <<Req(1, "expiration", uint32), Req(2, "ref_block_num", uint32),
    Req(3, "ref_block_prefix", uint32), Req(4, "max_net_usage_words", uint32),
    Req(5, "max_cpu_usage_ms", uint32), Req(6, "delay_sec", uint32)>>
EosTxActionRequest == <<Opt(1, "data_size", uint32)>>
EosTxActionAck ==
  <<Req(1, "common", Msg("EosActionCommon")),
    Opt(2, "transfer", Msg("EosActionTransfer")),
    Opt(3, "delegate", Msg("EosActionDelegate")),
    Opt(4, "undelegate", Msg("EosActionUndelegate")),
    Opt(5, "refund", Msg("EosActionRefund")),
    Opt(6, "buy_ram", Msg("EosActionBuyRam")),
    Opt(7, "buy_ram_bytes", Msg("EosActionBuyRamBytes")),
    Opt(8, "sell_ram", Msg("EosActionSellRam")),
    Opt(9, "vote_producer", Msg("EosActionVoteProducer")),
    Opt(10, "update_auth", Msg("EosActionUpdateAuth")),
    Opt(11, "delete_auth", Msg("EosActionDeleteAuth")),
    Opt(12, "link_auth", Msg("EosActionLinkAuth")),
    Opt(13, "unlink_auth", Msg("EosActionUnlinkAuth")),
    Opt(14, "new_account", Msg("EosActionNewAccount")),
    Opt(15, "unknown", Msg("EosActionUnknown"))>>
EosAsset == <<Req(1, "amount", sint64), Req(2, "symbol", uint64)>>
EosPermissionLevel ==
  <<Req(1, "actor", uint64), Req(2, "permission", uint64)>>
EosAuthorizationKey ==
  <<Req(1, "type", uint32), Opt(2, "key", bytes), Rep(3, "address_n", uint32),
    Req(4, "weight", uint32)>>
EosAuthorizationAccount ==
  <<Req(1, "account", Msg("EosPermissionLevel")), Req(2, "weight", uint32)>>
EosAuthorizationWait ==
  <<Req(1, "wait_sec", uint32), Req(2, "weight", uint32)>>
EosAuthorization ==
  <<Req(1, "threshold", uint32), Rep(2, "keys", Msg("EosAuthorizationKey")),
    Rep(3, "accounts", Msg("EosAuthorizationAccount")),
    Rep(4, "waits", Msg("EosAuthorizationWait"))>>
EosActionCommon ==
  <<Req(1, "account", uint64), Req(2, "name", uint64),
    Rep(3, "authorization", Msg("EosPermissionLevel"))>>
EosActionTransfer ==
  <<Req(1, "sender", uint64), Req(2, "receiver", uint64),
    Req(3, "quantity", Msg("EosAsset")), Req(4, "memo", string)>>
EosActionDelegate ==
  <<Req(1, "sender", uint64), Req(2, "receiver", uint64),
    Req(3, "net_quantity", Msg("EosAsset")),
    Req(4, "cpu_quantity", Msg("EosAsset")), Req(5, "transfer", bool)>>
EosActionUndelegate ==
  <<Req(1, "sender", uint64), Req(2, "receiver", uint64),
    Req(3, "net_quantity", Msg("EosAsset")),
    Req(4, "cpu_quantity", Msg("EosAsset"))>>
EosActionRefund == <<Req(1, "owner", uint64)>>
EosActionBuyRam ==
  <<Req(1, "payer", uint64), Req(2, "receiver", uint64),
    Req(3, "quantity", Msg("EosAsset"))>>
EosActionBuyRamBytes ==
  <<Req(1, "payer", uint64), Req(2, "receiver", uint64),
    Req(3, "bytes", uint32)>>
EosActionSellRam == <<Req(1, "account", uint64), Req(2, "bytes", uint64)>>
EosActionVoteProducer ==
  <<Req(1, "voter", uint64), Req(2, "proxy", uint64),
    Rep(3, "producers", uint64)>>
EosActionUpdateAuth ==
  <<Req(1, "account", uint64), Req(2, "permission", uint64),
    Req(3, "parent", uint64), Req(4, "auth", Msg("EosAuthorization"))>>
EosActionDeleteAuth ==
  <<Req(1, "account", uint64), Req(2, "permission", uint64)>>
EosActionLinkAuth ==
  <<Req(1, "account", uint64), Req(2, "code", uint64), Req(3, "type", uint64),
    Req(4, "requirement", uint64)>>
EosActionUnlinkAuth ==
  <<Req(1, "account", uint64), Req(2, "code", uint64),
    Req(3, "type", uint64)>>
EosActionNewAccount ==
  <<Req(1, "creator", uint64), Req(2, "name", uint64),
    Req(3, "owner", Msg("EosAuthorization")),
    Req(4, "active", Msg("EosAuthorization"))>>
EosActionUnknown ==
  <<Req(1, "data_size", uint32), Req(2, "data_chunk", bytes)>>
EosSignedTx == <<Req(1, "signature", string)>>
NEMGetAddress ==
  <<Rep(1, "address_n", uint32), Def(2, "network", uint32, 104),
    Opt(3, "show_display", bool), Opt(4, "chunkify", bool)>>
NEMAddress == <<Req(1, "address", string)>>
NEMSignTx ==
  <<Req(1, "transaction", Msg("NEMTransactionCommon")),
    Opt(2, "multisig", Msg("NEMTransactionCommon")),
    Opt(3, "transfer", Msg("NEMTransfer")), Opt(4, "cosigning", bool),
    Opt(5, "provision_namespace", Msg("NEMProvisionNamespace")),
    Opt(6, "mosaic_creation", Msg("NEMMosaicCreation")),
    Opt(7, "supply_change", Msg("NEMMosaicSupplyChange")),
    Opt(8, "aggregate_modification", Msg("NEMAggregateModification")),
    Opt(9, "importance_transfer", Msg("NEMImportanceTransfer")),
    Opt(10, "chunkify", bool)>>
NEMTransactionCommon ==
  <<Rep(1, "address_n", uint32), Def(2, "network", uint32, 104),
    Req(3, "timestamp", uint32), Req(4, "fee", uint64),
    Req(5, "deadline", uint32), Opt(6, "signer", bytes)>>
NEMTransfer ==
  <<Req(1, "recipient", string), Req(2, "amount", uint64),
    Opt(3, "payload", bytes), Opt(4, "public_key", bytes),
    Rep(5, "mosaics", Msg("NEMMosaic"))>>
NEMMosaic ==
  <<Req(1, "namespace", string), Req(2, "mosaic", string),
    Req(3, "quantity", uint64)>>
NEMProvisionNamespace ==
  <<Req(1, "namespace", string), Opt(2, "parent", string),
    Req(3, "sink", string), Req(4, "fee", uint64)>>
NEMMosaicCreation ==
  <<Req(1, "definition", Msg("NEMMosaicDefinition")), Req(2, "sink", string),
    Req(3, "fee", uint64)>>
NEMMosaicDefinition ==
  <<Opt(1, "name", string), Opt(2, "ticker", string),
    Req(3, "namespace", string), Req(4, "mosaic", string),
    Opt(5, "divisibility", uint32), Opt(6, "levy", Enum("NEMMosaicLevy")),
    Opt(7, "fee", uint64), Opt(8, "levy_address", string),
    Opt(9, "levy_namespace", string), Opt(10, "levy_mosaic", string),
    Opt(11, "supply", uint64), Opt(12, "mutable_supply", bool),
    Opt(13, "transferable", bool), Req(14, "description", string),
    Rep(15, "networks", uint32)>>
NEMMosaicSupplyChange ==
  <<Req(1, "namespace", string), Req(2, "mosaic", string),
    Req(3, "type", Enum("NEMSupplyChangeType")), Req(4, "delta", uint64)>>
NEMAggregateModification ==
  <<Rep(1, "modifications", Msg("NEMCosignatoryModification")),
    Opt(2, "relative_change", sint32)>>
NEMCosignatoryModification ==
  <<Req(1, "type", Enum("NEMModificationType")), Req(2, "public_key", bytes)>>
NEMImportanceTransfer ==
  <<Req(1, "mode", Enum("NEMImportanceTransferMode")),
    Req(2, "public_key", bytes)>>
NEMSignedTx == <<Req(1, "data", bytes), Req(2, "signature", bytes)>>
NEMDecryptMessage ==
  <<Rep(1, "address_n", uint32), Opt(2, "network", uint32),
    Opt(3, "public_key", bytes), Opt(4, "payload", bytes)>>
NEMDecryptedMessage == <<Req(1, "payload", bytes)>>
RippleGetAddress ==
  <<Rep(1, "address_n", uint32), Opt(2, "show_display", bool),
    Opt(3, "chunkify", bool)>>
RippleAddress == <<Req(1, "address", string)>>
RippleSignTx ==
  <<Rep(1, "address_n", uint32), Req(2, "fee", uint64),
    Def(3, "flags", uint32, 0), Req(4, "sequence", uint32),
    Opt(5, "last_ledger_sequence", uint32),
    Req(6, "payment", Msg("RipplePayment")), Opt(7, "chunkify", bool)>>
RipplePayment ==
  <<Req(1, "amount", uint64), Req(2, "destination", string),
    Opt(3, "destination_tag", uint32)>>
RippleSignedTx ==
  <<Req(1, "signature", bytes), Req(2, "serialized_tx", bytes)>>
SolanaGetPublicKey ==
  <<Rep(1, "address_n", uint32), Opt(2, "show_display", bool)>>
SolanaPublicKey == <<Req(1, "public_key", bytes)>>
SolanaGetAddress ==
  <<Rep(1, "address_n", uint32), Opt(2, "show_display", bool),
    Opt(3, "chunkify", bool)>>
SolanaAddress == <<Req(1, "address", string)>>
SolanaTxTokenAccountInfo ==
  <<Req(1, "base_address", string), Req(2, "token_program", string),
    Req(3, "token_mint", string), Req(4, "token_account", string)>>
SolanaTxAdditionalInfo ==
  <<Rep(1, "token_accounts_infos", Msg("SolanaTxTokenAccountInfo"))>>
SolanaSignTx ==
  <<Rep(1, "address_n", uint32), Req(2, "serialized_tx", bytes),
    Opt(3, "additional_info", Msg("SolanaTxAdditionalInfo"))>>
SolanaTxSignature == <<Req(1, "signature", bytes)>>
StellarAsset ==
  <<Req(1, "type", Enum("StellarAssetType")), Opt(2, "code", string),
    Opt(3, "issuer", string)>>
StellarGetAddress ==
  <<Rep(1, "address_n", uint32), Opt(2, "show_display", bool),
    Opt(3, "chunkify", bool)>>
StellarAddress == <<Req(1, "address", string)>>
StellarSignTx ==
  <<Rep(2, "address_n", uint32), Req(3, "network_passphrase", string),
    Req(4, "source_account", string), Req(5, "fee", uint32),
    Req(6, "sequence_number", uint64), Req(8, "timebounds_start", uint32),
    Req(9, "timebounds_end", uint32),
    Req(10, "memo_type", Enum("StellarMemoType")),
    Opt(11, "memo_text", string), Opt(12, "memo_id", uint64),
    Opt(13, "memo_hash", bytes), Req(14, "num_operations", uint32)>>
StellarTxOpRequest == <<>>
StellarPaymentOp ==
  <<Opt(1, "source_account", string), Req(2, "destination_account", string),
    Req(3, "asset", Msg("StellarAsset")), Req(4, "amount", sint64)>>
StellarCreateAccountOp ==
  <<Opt(1, "source_account", string), Req(2, "new_account", string),
    Req(3, "starting_balance", sint64)>>
StellarPathPaymentStrictReceiveOp ==
  <<Opt(1, "source_account", string),
    Req(2, "send_asset", Msg("StellarAsset")), Req(3, "send_max", sint64),
    Req(4, "destination_account", string),
    Req(5, "destination_asset", Msg("StellarAsset")),
    Req(6, "destination_amount", sint64),
    Rep(7, "paths", Msg("StellarAsset"))>>
StellarPathPaymentStrictSendOp ==
  <<Opt(1, "source_account", string),
    Req(2, "send_asset", Msg("StellarAsset")), Req(3, "send_amount", sint64),
    Req(4, "destination_account", string),
    Req(5, "destination_asset", Msg("StellarAsset")),
    Req(6, "destination_min", sint64), Rep(7, "paths", Msg("StellarAsset"))>>
StellarManageSellOfferOp ==
  <<Opt(1, "source_account", string),
    Req(2, "selling_asset", Msg("StellarAsset")),
    Req(3, "buying_asset", Msg("StellarAsset")), Req(4, "amount", sint64),
    Req(5, "price_n", uint32), Req(6, "price_d", uint32),
    Req(7, "offer_id", uint64)>>
StellarManageBuyOfferOp ==
  <<Opt(1, "source_account", string),
    Req(2, "selling_asset", Msg("StellarAsset")),
    Req(3, "buying_asset", Msg("StellarAsset")), Req(4, "amount", sint64),
    Req(5, "price_n", uint32), Req(6, "price_d", uint32),
    Req(7, "offer_id", uint64)>>
StellarCreatePassiveSellOfferOp ==
  <<Opt(1, "source_account", string),
    Req(2, "selling_asset", Msg("StellarAsset")),
    Req(3, "buying_asset", Msg("StellarAsset")), Req(4, "amount", sint64),
    Req(5, "price_n", uint32), Req(6, "price_d", uint32)>>
StellarSetOptionsOp ==
  <<Opt(1, "source_account", string),
    Opt(2, "inflation_destination_account", string),
    Opt(3, "clear_flags", uint32), Opt(4, "set_flags", uint32),
    Opt(5, "master_weight", uint32), Opt(6, "low_threshold", uint32),
    Opt(7, "medium_threshold", uint32), Opt(8, "high_threshold", uint32),
    Opt(9, "home_domain", string),
    Opt(10, "signer_type", Enum("StellarSignerType")),
    Opt(11, "signer_key", bytes), Opt(12, "signer_weight", uint32)>>
StellarChangeTrustOp ==
  <<Opt(1, "source_account", string), Req(2, "asset", Msg("StellarAsset")),
    Req(3, "limit", uint64)>>
StellarAllowTrustOp ==
  <<Opt(1, "source_account", string), Req(2, "trusted_account", string),
    Req(3, "asset_type", Enum("StellarAssetType")),
    Opt(4, "asset_code", string), Req(5, "is_authorized", bool)>>
StellarAccountMergeOp ==
  <<Opt(1, "source_account", string), Req(2, "destination_account", string)>>
StellarManageDataOp ==
  <<Opt(1, "source_account", string), Req(2, "key", string),
    Opt(3, "value", bytes)>>
StellarBumpSequenceOp ==
  <<Opt(1, "source_account", string), Req(2, "bump_to", uint64)>>
StellarClaimClaimableBalanceOp ==
  <<Opt(1, "source_account", string), Req(2, "balance_id", bytes)>>
StellarSignedTx ==
  <<Req(1, "public_key", bytes), Req(2, "signature", bytes)>>
TezosGetAddress ==
  <<Rep(1, "address_n", uint32), Opt(2, "show_display", bool),
    Opt(3, "chunkify", bool)>>
TezosAddress == <<Req(1, "address", string)>>
TezosGetPublicKey ==
  <<Rep(1, "address_n", uint32), Opt(2, "show_display", bool),
    Opt(3, "chunkify", bool)>>
TezosPublicKey == <<Req(1, "public_key", string)>>
TezosSignTx ==
  <<Rep(1, "address_n", uint32), Req(2, "branch", bytes),
    Opt(3, "reveal", Msg("TezosRevealOp")),
    Opt(4, "transaction", Msg("TezosTransactionOp")),
    Opt(5, "origination", Msg("TezosOriginationOp")),
    Opt(6, "delegation", Msg("TezosDelegationOp")),
    Opt(7, "proposal", Msg("TezosProposalOp")),
    Opt(8, "ballot", Msg("TezosBallotOp")), Opt(9, "chunkify", bool)>>
TezosContractID ==
  <<Req(1, "tag", Enum("TezosContractType")), Req(2, "hash", bytes)>>
TezosRevealOp ==
  <<Req(7, "source", bytes), Req(2, "fee", uint64), Req(3, "counter", uint64),
    Req(4, "gas_limit", uint64), Req(5, "storage_limit", uint64),
    Req(6, "public_key", bytes)>>
TezosTransactionOp ==
  <<Req(9, "source", bytes), Req(2, "fee", uint64), Req(3, "counter", uint64),
    Req(4, "gas_limit", uint64), Req(5, "storage_limit", uint64),
    Req(6, "amount", uint64), Req(7, "destination", Msg("TezosContractID")),
    Opt(8, "parameters", bytes),
    Opt(10, "parameters_manager", Msg("TezosParametersManager"))>>
TezosParametersManager ==
  <<Opt(1, "set_delegate", bytes), Opt(2, "cancel_delegate", bool),
    Opt(3, "transfer", Msg("TezosManagerTransfer"))>>
TezosManagerTransfer ==
  <<Req(1, "destination", Msg("TezosContractID")), Req(2, "amount", uint64)>>
TezosOriginationOp ==
  <<Req(12, "source", bytes), Req(2, "fee", uint64),
    Req(3, "counter", uint64), Req(4, "gas_limit", uint64),
    Req(5, "storage_limit", uint64), Opt(6, "manager_pubkey", bytes),
    Req(7, "balance", uint64), Opt(8, "spendable", bool),
    Opt(9, "delegatable", bool), Opt(10, "delegate", bytes),
    Req(11, "script", bytes)>>
TezosDelegationOp ==
  <<Req(7, "source", bytes), Req(2, "fee", uint64), Req(3, "counter", uint64),
    Req(4, "gas_limit", uint64), Req(5, "storage_limit", uint64),
    Req(6, "delegate", bytes)>>
TezosProposalOp ==
  <<Req(1, "source", bytes), Req(2, "period", uint64),
    Rep(4, "proposals", bytes)>>
TezosBallotOp ==
  <<Req(1, "source", bytes), Req(2, "period", uint64),
    Req(3, "proposal", bytes), Req(4, "ballot", Enum("TezosBallotType"))>>
TezosSignedTx ==
  <<Req(1, "signature", string), Req(2, "sig_op_contents", bytes),
    Req(3, "operation_hash", string)>>

(* The definitions by their names.                                         *)
AltcoinEnums ==
  [BinanceOrderType |-> BinanceOrderType,
   BinanceOrderSide |-> BinanceOrderSide,
   BinanceTimeInForce |-> BinanceTimeInForce, NEMMosaicLevy |-> NEMMosaicLevy,
   NEMSupplyChangeType |-> NEMSupplyChangeType,
   NEMModificationType |-> NEMModificationType,
   NEMImportanceTransferMode |-> NEMImportanceTransferMode,
   StellarMemoType |-> StellarMemoType,
   StellarSignerType |-> StellarSignerType,
   StellarAssetType |-> StellarAssetType,
   TezosContractType |-> TezosContractType,
   TezosBallotType |-> TezosBallotType]
AltcoinMessages ==
  [BinanceGetAddress |-> BinanceGetAddress, BinanceAddress |-> BinanceAddress,
   BinanceGetPublicKey |-> BinanceGetPublicKey,
   BinancePublicKey |-> BinancePublicKey, BinanceSignTx |-> BinanceSignTx,
   BinanceTxRequest |-> BinanceTxRequest,
   BinanceTransferMsg |-> BinanceTransferMsg,
   BinanceInputOutput |-> BinanceInputOutput, BinanceCoin |-> BinanceCoin,
   BinanceOrderMsg |-> BinanceOrderMsg, BinanceCancelMsg |-> BinanceCancelMsg,
   BinanceSignedTx |-> BinanceSignedTx, EosGetPublicKey |-> EosGetPublicKey,
   EosPublicKey |-> EosPublicKey, EosSignTx |-> EosSignTx,
   EosTxHeader |-> EosTxHeader, EosTxActionRequest |-> EosTxActionRequest,
   EosTxActionAck |-> EosTxActionAck, EosAsset |-> EosAsset,
   EosPermissionLevel |-> EosPermissionLevel,
   EosAuthorizationKey |-> EosAuthorizationKey,
   EosAuthorizationAccount |-> EosAuthorizationAccount,
   EosAuthorizationWait |-> EosAuthorizationWait,
   EosAuthorization |-> EosAuthorization, EosActionCommon |-> EosActionCommon,
   EosActionTransfer |-> EosActionTransfer,
   EosActionDelegate |-> EosActionDelegate,
   EosActionUndelegate |-> EosActionUndelegate,
   EosActionRefund |-> EosActionRefund, EosActionBuyRam |-> EosActionBuyRam,
   EosActionBuyRamBytes |-> EosActionBuyRamBytes,
   EosActionSellRam |-> EosActionSellRam,
   EosActionVoteProducer |-> EosActionVoteProducer,
   EosActionUpdateAuth |-> EosActionUpdateAuth,
   EosActionDeleteAuth |-> EosActionDeleteAuth,
   EosActionLinkAuth |-> EosActionLinkAuth,
   EosActionUnlinkAuth |-> EosActionUnlinkAuth,
   EosActionNewAccount |-> EosActionNewAccount,
   EosActionUnknown |-> EosActionUnknown, EosSignedTx |-> EosSignedTx,
   NEMGetAddress |-> NEMGetAddress, NEMAddress |-> NEMAddress,
   NEMSignTx |-> NEMSignTx, NEMTransactionCommon |-> NEMTransactionCommon,
   NEMTransfer |-> NEMTransfer, NEMMosaic |-> NEMMosaic,
   NEMProvisionNamespace |-> NEMProvisionNamespace,
   NEMMosaicCreation |-> NEMMosaicCreation,
   NEMMosaicDefinition |-> NEMMosaicDefinition,
   NEMMosaicSupplyChange |-> NEMMosaicSupplyChange,
   NEMAggregateModification |-> NEMAggregateModification,
   NEMCosignatoryModification |-> NEMCosignatoryModification,
   NEMImportanceTransfer |-> NEMImportanceTransfer,
   NEMSignedTx |-> NEMSignedTx, NEMDecryptMessage |-> NEMDecryptMessage,
   NEMDecryptedMessage |-> NEMDecryptedMessage,
   RippleGetAddress |-> RippleGetAddress, RippleAddress |-> RippleAddress,
   RippleSignTx |-> RippleSignTx, RipplePayment |-> RipplePayment,
   RippleSignedTx |-> RippleSignedTx,
   SolanaGetPublicKey |-> SolanaGetPublicKey,
   SolanaPublicKey |-> SolanaPublicKey, SolanaGetAddress |-> SolanaGetAddress,
   SolanaAddress |-> SolanaAddress,
   SolanaTxTokenAccountInfo |-> SolanaTxTokenAccountInfo,
   SolanaTxAdditionalInfo |-> SolanaTxAdditionalInfo,
   SolanaSignTx |-> SolanaSignTx, SolanaTxSignature |-> SolanaTxSignature,
   StellarAsset |-> StellarAsset, StellarGetAddress |-> StellarGetAddress,
   StellarAddress |-> StellarAddress, StellarSignTx |-> StellarSignTx,
   StellarTxOpRequest |-> StellarTxOpRequest,
   StellarPaymentOp |-> StellarPaymentOp,
   StellarCreateAccountOp |-> StellarCreateAccountOp,
   StellarPathPaymentStrictReceiveOp |-> StellarPathPaymentStrictReceiveOp,
   StellarPathPaymentStrictSendOp |-> StellarPathPaymentStrictSendOp,
   StellarManageSellOfferOp |-> StellarManageSellOfferOp,
   StellarManageBuyOfferOp |-> StellarManageBuyOfferOp,
   StellarCreatePassiveSellOfferOp |-> StellarCreatePassiveSellOfferOp,
   StellarSetOptionsOp |-> StellarSetOptionsOp,
   StellarChangeTrustOp |-> StellarChangeTrustOp,
   StellarAllowTrustOp |-> StellarAllowTrustOp,
   StellarAccountMergeOp |-> StellarAccountMergeOp,
   StellarManageDataOp |-> StellarManageDataOp,
   StellarBumpSequenceOp |-> StellarBumpSequenceOp,
   StellarClaimClaimableBalanceOp |-> StellarClaimClaimableBalanceOp,
   StellarSignedTx |-> StellarSignedTx, TezosGetAddress |-> TezosGetAddress,
   TezosAddress |-> TezosAddress, TezosGetPublicKey |-> TezosGetPublicKey,
   TezosPublicKey |-> TezosPublicKey, TezosSignTx |-> TezosSignTx,
   TezosContractID |-> TezosContractID, TezosRevealOp |-> TezosRevealOp,
   TezosTransactionOp |-> TezosTransactionOp,
   TezosParametersManager |-> TezosParametersManager,
   TezosManagerTransfer |-> TezosManagerTransfer,
   TezosOriginationOp |-> TezosOriginationOp,
   TezosDelegationOp |-> TezosDelegationOp,
   TezosProposalOp |-> TezosProposalOp, TezosBallotOp |-> TezosBallotOp,
   TezosSignedTx |-> TezosSignedTx]
=============================================================================
