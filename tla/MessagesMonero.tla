--------------------------- MODULE MessagesMonero ---------------------------
(* Monero messages.                                                        *)
(* One definition per generated struct of the client: its fields in the    *)
(* order they are written, and the default its getter gives.               *)
EXTENDS ProtoFields

MoneroNetworkType == 0 .. 3

MoneroTransactionSourceEntry ==
  <<Rep(1, "outputs", Msg("MoneroOutputEntry")),
    Opt(2, "real_output", uint64), Opt(3, "real_out_tx_key", bytes),
    Rep(4, "real_out_additional_tx_keys", bytes),
    Opt(5, "real_output_in_tx_index", uint64), Opt(6, "amount", uint64),
    Opt(7, "rct", bool), Opt(8, "mask", bytes),
    Opt(9, "multisig_kLRki", Msg("MoneroMultisigKLRki")),
    Opt(10, "subaddr_minor", uint32)>>
MoneroOutputEntry ==
  <<Opt(1, "idx", uint64), Opt(2, "key", Msg("MoneroRctKeyPublic"))>>
MoneroRctKeyPublic == <<Req(1, "dest", bytes), Req(2, "commitment", bytes)>>
MoneroMultisigKLRki ==
  <<Opt(1, "K", bytes), Opt(2, "L", bytes), Opt(3, "R", bytes),
    Opt(4, "ki", bytes)>>
MoneroTransactionDestinationEntry ==
  <<Opt(1, "amount", uint64),
    Opt(2, "addr", Msg("MoneroAccountPublicAddress")),
    Opt(3, "is_subaddress", bool), Opt(4, "original", bytes),
    Opt(5, "is_integrated", bool)>>
MoneroAccountPublicAddress ==
  <<Opt(1, "spend_public_key", bytes), Opt(2, "view_public_key", bytes)>>
MoneroTransactionRsigData ==
  <<Opt(1, "rsig_type", uint32), Opt(2, "offload_type", uint32),
    Rep(3, "grouping", uint64), Opt(4, "mask", bytes), Opt(5, "rsig", bytes),
    Rep(6, "rsig_parts", bytes), Opt(7, "bp_version", uint32)>>
MoneroGetAddress ==
  <<Rep(1, "address_n", uint32), Opt(2, "show_display", bool),
    Def(3, "network_type", Enum("MoneroNetworkType"), 0),
    Opt(4, "account", uint32), Opt(5, "minor", uint32),
    Opt(6, "payment_id", bytes), Opt(7, "chunkify", bool)>>
MoneroAddress == <<Opt(1, "address", bytes)>>
MoneroGetWatchKey ==
  <<Rep(1, "address_n", uint32),
    Def(2, "network_type", Enum("MoneroNetworkType"), 0)>>
MoneroWatchKey == <<Opt(1, "watch_key", bytes), Opt(2, "address", bytes)>>
MoneroTransactionInitRequest ==
  <<Opt(1, "version", uint32), Rep(2, "address_n", uint32),
    Def(3, "network_type", Enum("MoneroNetworkType"), 0),
    Opt(4, "tsx_data", Msg("MoneroTransactionData"))>>
MoneroTransactionData ==
  <<Opt(1, "version", uint32), Opt(2, "payment_id", bytes),
    Opt(3, "unlock_time", uint64),
    Rep(4, "outputs", Msg("MoneroTransactionDestinationEntry")),
    Opt(5, "change_dts", Msg("MoneroTransactionDestinationEntry")),
    Opt(6, "num_inputs", uint32), Opt(7, "mixin", uint32),
    Opt(8, "fee", uint64), Opt(9, "account", uint32),
    Rep(10, "minor_indices", uint32),
    Opt(11, "rsig_data", Msg("MoneroTransactionRsigData")),
    Rep(12, "integrated_indices", uint32), Opt(13, "client_version", uint32),
    Opt(14, "hard_fork", uint32), Opt(15, "monero_version", bytes),
    Opt(16, "chunkify", bool)>>
MoneroTransactionInitAck ==
  <<Rep(1, "hmacs", bytes),
    Opt(2, "rsig_data", Msg("MoneroTransactionRsigData"))>>
MoneroTransactionSetInputRequest ==
  <<Opt(1, "src_entr", Msg("MoneroTransactionSourceEntry"))>>
MoneroTransactionSetInputAck ==
  <<Opt(1, "vini", bytes), Opt(2, "vini_hmac", bytes),
    Opt(3, "pseudo_out", bytes), Opt(4, "pseudo_out_hmac", bytes),
    Opt(5, "pseudo_out_alpha", bytes), Opt(6, "spend_key", bytes)>>
MoneroTransactionInputViniRequest ==
  <<Opt(1, "src_entr", Msg("MoneroTransactionSourceEntry")),
    Opt(2, "vini", bytes), Opt(3, "vini_hmac", bytes),
    Opt(4, "pseudo_out", bytes), Opt(5, "pseudo_out_hmac", bytes),
    Opt(6, "orig_idx", uint32)>>
MoneroTransactionInputViniAck == <<>>
MoneroTransactionAllInputsSetRequest == <<>>
MoneroTransactionAllInputsSetAck ==
  <<Opt(1, "rsig_data", Msg("MoneroTransactionRsigData"))>>
MoneroTransactionSetOutputRequest ==
  <<Opt(1, "dst_entr", Msg("MoneroTransactionDestinationEntry")),
    Opt(2, "dst_entr_hmac", bytes),
    Opt(3, "rsig_data", Msg("MoneroTransactionRsigData")),
    Opt(4, "is_offloaded_bp", bool)>>
MoneroTransactionSetOutputAck ==
  <<Opt(1, "tx_out", bytes), Opt(2, "vouti_hmac", bytes),
    Opt(3, "rsig_data", Msg("MoneroTransactionRsigData")),
    Opt(4, "out_pk", bytes), Opt(5, "ecdh_info", bytes)>>
MoneroTransactionAllOutSetRequest ==
  <<Opt(1, "rsig_data", Msg("MoneroTransactionRsigData"))>>
MoneroTransactionAllOutSetAck ==
  <<Opt(1, "extra", bytes), Opt(2, "tx_prefix_hash", bytes),
    Opt(4, "rv", Msg("MoneroRingCtSig")), Opt(5, "full_message_hash", bytes)>>
MoneroRingCtSig ==
  <<Opt(1, "txn_fee", uint64), Opt(2, "message", bytes),
    Opt(3, "rv_type", uint32)>>
MoneroTransactionSignInputRequest ==
  <<Opt(1, "src_entr", Msg("MoneroTransactionSourceEntry")),
    Opt(2, "vini", bytes), Opt(3, "vini_hmac", bytes),
    Opt(4, "pseudo_out", bytes), Opt(5, "pseudo_out_hmac", bytes),
    Opt(6, "pseudo_out_alpha", bytes), Opt(7, "spend_key", bytes),
    Opt(8, "orig_idx", uint32)>>
MoneroTransactionSignInputAck ==
  <<Opt(1, "signature", bytes), Opt(2, "pseudo_out", bytes)>>
MoneroTransactionFinalRequest == <<>>
MoneroTransactionFinalAck ==
  <<Opt(1, "cout_key", bytes), Opt(2, "salt", bytes),
    Opt(3, "rand_mult", bytes), Opt(4, "tx_enc_keys", bytes),
    Opt(5, "opening_key", bytes)>>
MoneroKeyImageExportInitRequest ==
  <<Req(1, "num", uint64), Req(2, "hash", bytes), Rep(3, "address_n", uint32),
    Def(4, "network_type", Enum("MoneroNetworkType"), 0),
    Rep(5, "subs", Msg("MoneroSubAddressIndicesList"))>>
MoneroSubAddressIndicesList ==
  <<Req(1, "account", uint32), Rep(2, "minor_indices", uint32)>>
MoneroKeyImageExportInitAck == <<>>
MoneroKeyImageSyncStepRequest ==
  <<Rep(1, "tdis", Msg("MoneroTransferDetails"))>>
MoneroTransferDetails ==
  <<Req(1, "out_key", bytes), Req(2, "tx_pub_key", bytes),
    Rep(3, "additional_tx_pub_keys", bytes),
    Req(4, "internal_output_index", uint64), Opt(5, "sub_addr_major", uint32),
    Opt(6, "sub_addr_minor", uint32)>>
MoneroKeyImageSyncStepAck == <<Rep(1, "kis", Msg("MoneroExportedKeyImage"))>>
MoneroExportedKeyImage == <<Opt(1, "iv", bytes), Opt(3, "blob", bytes)>>
MoneroKeyImageSyncFinalRequest == <<>>
MoneroKeyImageSyncFinalAck == <<Opt(1, "enc_key", bytes)>>
MoneroGetTxKeyRequest ==
  <<Rep(1, "address_n", uint32),
    Def(2, "network_type", Enum("MoneroNetworkType"), 0),
    Req(3, "salt1", bytes), Req(4, "salt2", bytes),
    Req(5, "tx_enc_keys", bytes), Req(6, "tx_prefix_hash", bytes),
    Opt(7, "reason", uint32), Opt(8, "view_public_key", bytes)>>
MoneroGetTxKeyAck ==
  <<Opt(1, "salt", bytes), Opt(2, "tx_keys", bytes),
    Opt(3, "tx_derivations", bytes)>>
MoneroLiveRefreshStartRequest ==
  <<Rep(1, "address_n", uint32),
    Def(2, "network_type", Enum("MoneroNetworkType"), 0)>>
MoneroLiveRefreshStartAck == <<>>
MoneroLiveRefreshStepRequest ==
  <<Req(1, "out_key", bytes), Req(2, "recv_deriv", bytes),
    Req(3, "real_out_idx", uint64), Req(4, "sub_addr_major", uint32),
    Req(5, "sub_addr_minor", uint32)>>
MoneroLiveRefreshStepAck ==
  <<Opt(1, "salt", bytes), Opt(2, "key_image", bytes)>>
MoneroLiveRefreshFinalRequest == <<>>
MoneroLiveRefreshFinalAck == <<>>
DebugMoneroDiagRequest ==
  <<Opt(1, "ins", uint64), Opt(2, "p1", uint64), Opt(3, "p2", uint64),
    Rep(4, "pd", uint64), Opt(5, "data1", bytes), Opt(6, "data2", bytes)>>
DebugMoneroDiagAck ==
  <<Opt(1, "ins", uint64), Opt(2, "p1", uint64), Opt(3, "p2", uint64),
    Rep(4, "pd", uint64), Opt(5, "data1", bytes), Opt(6, "data2", bytes)>>

(* The definitions by their names.                                         *)
MoneroEnums ==
  [MoneroNetworkType |-> MoneroNetworkType]
MoneroMessages ==
  [MoneroTransactionSourceEntry |-> MoneroTransactionSourceEntry,
   MoneroOutputEntry |-> MoneroOutputEntry,
   MoneroRctKeyPublic |-> MoneroRctKeyPublic,
   MoneroMultisigKLRki |-> MoneroMultisigKLRki,
   MoneroTransactionDestinationEntry |-> MoneroTransactionDestinationEntry,
   MoneroAccountPublicAddress |-> MoneroAccountPublicAddress,
   MoneroTransactionRsigData |-> MoneroTransactionRsigData,
   MoneroGetAddress |-> MoneroGetAddress, MoneroAddress |-> MoneroAddress,
   MoneroGetWatchKey |-> MoneroGetWatchKey, MoneroWatchKey |-> MoneroWatchKey,
   MoneroTransactionInitRequest |-> MoneroTransactionInitRequest,
   MoneroTransactionData |-> MoneroTransactionData,
   MoneroTransactionInitAck |-> MoneroTransactionInitAck,
   MoneroTransactionSetInputRequest |-> MoneroTransactionSetInputRequest,
   MoneroTransactionSetInputAck |-> MoneroTransactionSetInputAck,
   MoneroTransactionInputViniRequest |-> MoneroTransactionInputViniRequest,
   MoneroTransactionInputViniAck |-> MoneroTransactionInputViniAck,
   MoneroTransactionAllInputsSetRequest |-> MoneroTransactionAllInputsSetRequest,
   MoneroTransactionAllInputsSetAck |-> MoneroTransactionAllInputsSetAck,
   MoneroTransactionSetOutputRequest |-> MoneroTransactionSetOutputRequest,
   MoneroTransactionSetOutputAck |-> MoneroTransactionSetOutputAck,
   MoneroTransactionAllOutSetRequest |-> MoneroTransactionAllOutSetRequest,
   MoneroTransactionAllOutSetAck |-> MoneroTransactionAllOutSetAck,
   MoneroRingCtSig |-> MoneroRingCtSig,
   MoneroTransactionSignInputRequest |-> MoneroTransactionSignInputRequest,
   MoneroTransactionSignInputAck |-> MoneroTransactionSignInputAck,
   MoneroTransactionFinalRequest |-> MoneroTransactionFinalRequest,
   MoneroTransactionFinalAck |-> MoneroTransactionFinalAck,
   MoneroKeyImageExportInitRequest |-> MoneroKeyImageExportInitRequest,
   MoneroSubAddressIndicesList |-> MoneroSubAddressIndicesList,
   MoneroKeyImageExportInitAck |-> MoneroKeyImageExportInitAck,
   MoneroKeyImageSyncStepRequest |-> MoneroKeyImageSyncStepRequest,
   MoneroTransferDetails |-> MoneroTransferDetails,
   MoneroKeyImageSyncStepAck |-> MoneroKeyImageSyncStepAck,
   MoneroExportedKeyImage |-> MoneroExportedKeyImage,
   MoneroKeyImageSyncFinalRequest |-> MoneroKeyImageSyncFinalRequest,
   MoneroKeyImageSyncFinalAck |-> MoneroKeyImageSyncFinalAck,
   MoneroGetTxKeyRequest |-> MoneroGetTxKeyRequest,
   MoneroGetTxKeyAck |-> MoneroGetTxKeyAck,
   MoneroLiveRefreshStartRequest |-> MoneroLiveRefreshStartRequest,
   MoneroLiveRefreshStartAck |-> MoneroLiveRefreshStartAck,
   MoneroLiveRefreshStepRequest |-> MoneroLiveRefreshStepRequest,
   MoneroLiveRefreshStepAck |-> MoneroLiveRefreshStepAck,
   MoneroLiveRefreshFinalRequest |-> MoneroLiveRefreshFinalRequest,
   MoneroLiveRefreshFinalAck |-> MoneroLiveRefreshFinalAck,
   DebugMoneroDiagRequest |-> DebugMoneroDiagRequest,
   DebugMoneroDiagAck |-> DebugMoneroDiagAck]
=============================================================================
