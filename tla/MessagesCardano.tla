--------------------------- MODULE MessagesCardano --------------------------
(* Cardano messages.                                                       *)
(* One definition per generated struct of the client: its fields in the    *)
(* order they are written, and the default its getter gives.               *)
EXTENDS ProtoFields

CardanoDerivationType == 0 .. 2
CardanoAddressType == (0 .. 8) \cup {14, 15}
CardanoNativeScriptType == 0 .. 5
CardanoNativeScriptHashDisplayFormat == 0 .. 2
CardanoTxOutputSerializationFormat == 0 .. 1
CardanoCertificateType == (0 .. 3) \cup (7 .. 9)
CardanoDRepType == 0 .. 3
CardanoPoolRelayType == 0 .. 2
CardanoTxAuxiliaryDataSupplementType == 0 .. 1
CardanoCVoteRegistrationFormat == 0 .. 1
CardanoTxSigningMode == 0 .. 3
CardanoTxWitnessType == 0 .. 1

CardanoBlockchainPointerType ==
  <<Req(1, "block_index", uint32), Req(2, "tx_index", uint32),
    Req(3, "certificate_index", uint32)>>
CardanoNativeScript ==
  <<Req(1, "type", Enum("CardanoNativeScriptType")),
    Rep(2, "scripts", Msg("CardanoNativeScript")), Opt(3, "key_hash", bytes),
    Rep(4, "key_path", uint32), Opt(5, "required_signatures_count", uint32),
    Opt(6, "invalid_before", uint64), Opt(7, "invalid_hereafter", uint64)>>
CardanoGetNativeScriptHash ==
  <<Req(1, "script", Msg("CardanoNativeScript")),
    Req(2, "display_format", Enum("CardanoNativeScriptHashDisplayFormat")),
    Req(3, "derivation_type", Enum("CardanoDerivationType"))>>
CardanoNativeScriptHash == <<Req(1, "script_hash", bytes)>>
CardanoAddressParametersType ==
  <<Req(1, "address_type", Enum("CardanoAddressType")),
    Rep(2, "address_n", uint32), Rep(3, "address_n_staking", uint32),
    Opt(4, "staking_key_hash", bytes),
    Opt(5, "certificate_pointer", Msg("CardanoBlockchainPointerType")),
    Opt(6, "script_payment_hash", bytes),
    Opt(7, "script_staking_hash", bytes)>>
CardanoGetAddress ==
  <<Def(2, "show_display", bool, FALSE), Req(3, "protocol_magic", uint32),
    Req(4, "network_id", uint32),
    Req(5, "address_parameters", Msg("CardanoAddressParametersType")),
    Req(6, "derivation_type", Enum("CardanoDerivationType")),
    Opt(7, "chunkify", bool)>>
CardanoAddress == <<Req(1, "address", string)>>
CardanoGetPublicKey ==
  <<Rep(1, "address_n", uint32), Opt(2, "show_display", bool),
    Req(3, "derivation_type", Enum("CardanoDerivationType"))>>
CardanoPublicKey ==
  <<Req(1, "xpub", string), Req(2, "node", Msg("HDNodeType"))>>
CardanoSignTxInit ==
  <<Req(1, "signing_mode", Enum("CardanoTxSigningMode")),
    Req(2, "protocol_magic", uint32), Req(3, "network_id", uint32),
    Req(4, "inputs_count", uint32), Req(5, "outputs_count", uint32),
    Req(6, "fee", uint64), Opt(7, "ttl", uint64),
    Req(8, "certificates_count", uint32), Req(9, "withdrawals_count", uint32),
    Req(10, "has_auxiliary_data", bool),
    Opt(11, "validity_interval_start", uint64),
    Req(12, "witness_requests_count", uint32),
    Req(13, "minting_asset_groups_count", uint32),
    Req(14, "derivation_type", Enum("CardanoDerivationType")),
    Def(15, "include_network_id", bool, FALSE),
    Opt(16, "script_data_hash", bytes),
    Req(17, "collateral_inputs_count", uint32),
    Req(18, "required_signers_count", uint32),
    Def(19, "has_collateral_return", bool, FALSE),
    Opt(20, "total_collateral", uint64),
    Def(21, "reference_inputs_count", uint32, 0), Opt(22, "chunkify", bool),
    Def(23, "tag_cbor_sets", bool, FALSE)>>
CardanoTxInput ==
  <<Req(1, "prev_hash", bytes), Req(2, "prev_index", uint32)>>
CardanoTxOutput ==
  <<Opt(1, "address", string),
    Opt(2, "address_parameters", Msg("CardanoAddressParametersType")),
    Req(3, "amount", uint64), Req(4, "asset_groups_count", uint32),
    Opt(5, "datum_hash", bytes),
    Def(6, "format", Enum("CardanoTxOutputSerializationFormat"), 0),
    Def(7, "inline_datum_size", uint32, 0),
    Def(8, "reference_script_size", uint32, 0)>>
CardanoAssetGroup ==
  <<Req(1, "policy_id", bytes), Req(2, "tokens_count", uint32)>>
CardanoToken ==
  <<Req(1, "asset_name_bytes", bytes), Opt(2, "amount", uint64),
    Opt(3, "mint_amount", sint64)>>
CardanoTxInlineDatumChunk == <<Req(1, "data", bytes)>>
CardanoTxReferenceScriptChunk == <<Req(1, "data", bytes)>>
CardanoPoolOwner ==
  <<Rep(1, "staking_key_path", uint32), Opt(2, "staking_key_hash", bytes)>>
CardanoPoolRelayParameters ==
  <<Req(1, "type", Enum("CardanoPoolRelayType")),
    Opt(2, "ipv4_address", bytes), Opt(3, "ipv6_address", bytes),
    Opt(4, "host_name", string), Opt(5, "port", uint32)>>
CardanoPoolMetadataType == <<Req(1, "url", string), Req(2, "hash", bytes)>>
CardanoPoolParametersType ==
  <<Req(1, "pool_id", bytes), Req(2, "vrf_key_hash", bytes),
    Req(3, "pledge", uint64), Req(4, "cost", uint64),
    Req(5, "margin_numerator", uint64), Req(6, "margin_denominator", uint64),
    Req(7, "reward_account", string),
    Opt(10, "metadata", Msg("CardanoPoolMetadataType")),
    Req(11, "owners_count", uint32), Req(12, "relays_count", uint32)>>
CardanoDRep ==
  <<Req(1, "type", Enum("CardanoDRepType")), Opt(2, "key_hash", bytes),
    Opt(3, "script_hash", bytes)>>
CardanoTxCertificate ==
  <<Req(1, "type", Enum("CardanoCertificateType")), Rep(2, "path", uint32),
    Opt(3, "pool", bytes),
    Opt(4, "pool_parameters", Msg("CardanoPoolParametersType")),
    Opt(5, "script_hash", bytes), Opt(6, "key_hash", bytes),
    Opt(7, "deposit", uint64), Opt(8, "drep", Msg("CardanoDRep"))>>
CardanoTxWithdrawal ==
  <<Rep(1, "path", uint32), Req(2, "amount", uint64),
    Opt(3, "script_hash", bytes), Opt(4, "key_hash", bytes)>>
CardanoCVoteRegistrationDelegation ==
  <<Req(1, "vote_public_key", bytes), Req(2, "weight", uint32)>>
CardanoCVoteRegistrationParametersType ==
  <<Opt(1, "vote_public_key", bytes), Rep(2, "staking_path", uint32),
    Opt(3, "payment_address_parameters", Msg("CardanoAddressParametersType")),
    Req(4, "nonce", uint64),
    Def(5, "format", Enum("CardanoCVoteRegistrationFormat"), 0),
    Rep(6, "delegations", Msg("CardanoCVoteRegistrationDelegation")),
    Opt(7, "voting_purpose", uint64), Opt(8, "payment_address", string)>>
CardanoTxAuxiliaryData ==
  <<Opt(1, "cvote_registration_parameters", Msg("CardanoCVoteRegistrationParametersType")),
    Opt(2, "hash", bytes)>>
CardanoTxMint == <<Req(1, "asset_groups_count", uint32)>>
CardanoTxCollateralInput ==
  <<Req(1, "prev_hash", bytes), Req(2, "prev_index", uint32)>>
CardanoTxRequiredSigner ==
  <<Opt(1, "key_hash", bytes), Rep(2, "key_path", uint32)>>
CardanoTxReferenceInput ==
  <<Req(1, "prev_hash", bytes), Req(2, "prev_index", uint32)>>
CardanoTxItemAck == <<>>
CardanoTxAuxiliaryDataSupplement ==
  <<Req(1, "type", Enum("CardanoTxAuxiliaryDataSupplementType")),
    Opt(2, "auxiliary_data_hash", bytes),
    Opt(3, "cvote_registration_signature", bytes)>>
CardanoTxWitnessRequest == <<Rep(1, "path", uint32)>>
CardanoTxWitnessResponse ==
  <<Req(1, "type", Enum("CardanoTxWitnessType")), Req(2, "pub_key", bytes),
    Req(3, "signature", bytes), Opt(4, "chain_code", bytes)>>
CardanoTxHostAck == <<>>
CardanoTxBodyHash == <<Req(1, "tx_hash", bytes)>>
CardanoSignTxFinished == <<>>

(* The definitions by their names.                                         *)
CardanoEnums ==
  [CardanoDerivationType |-> CardanoDerivationType,
   CardanoAddressType |-> CardanoAddressType,
   CardanoNativeScriptType |-> CardanoNativeScriptType,
   CardanoNativeScriptHashDisplayFormat |-> CardanoNativeScriptHashDisplayFormat,
   CardanoTxOutputSerializationFormat |-> CardanoTxOutputSerializationFormat,
   CardanoCertificateType |-> CardanoCertificateType,
   CardanoDRepType |-> CardanoDRepType,
   CardanoPoolRelayType |-> CardanoPoolRelayType,
   CardanoTxAuxiliaryDataSupplementType |-> CardanoTxAuxiliaryDataSupplementType,
   CardanoCVoteRegistrationFormat |-> CardanoCVoteRegistrationFormat,
   CardanoTxSigningMode |-> CardanoTxSigningMode,
   CardanoTxWitnessType |-> CardanoTxWitnessType]
CardanoMessages ==
  [CardanoBlockchainPointerType |-> CardanoBlockchainPointerType,
   CardanoNativeScript |-> CardanoNativeScript,
   CardanoGetNativeScriptHash |-> CardanoGetNativeScriptHash,
   CardanoNativeScriptHash |-> CardanoNativeScriptHash,
   CardanoAddressParametersType |-> CardanoAddressParametersType,
   CardanoGetAddress |-> CardanoGetAddress, CardanoAddress |-> CardanoAddress,
   CardanoGetPublicKey |-> CardanoGetPublicKey,
   CardanoPublicKey |-> CardanoPublicKey,
   CardanoSignTxInit |-> CardanoSignTxInit, CardanoTxInput |-> CardanoTxInput,
   CardanoTxOutput |-> CardanoTxOutput,
   CardanoAssetGroup |-> CardanoAssetGroup, CardanoToken |-> CardanoToken,
   CardanoTxInlineDatumChunk |-> CardanoTxInlineDatumChunk,
   CardanoTxReferenceScriptChunk |-> CardanoTxReferenceScriptChunk,
   CardanoPoolOwner |-> CardanoPoolOwner,
   CardanoPoolRelayParameters |-> CardanoPoolRelayParameters,
   CardanoPoolMetadataType |-> CardanoPoolMetadataType,
   CardanoPoolParametersType |-> CardanoPoolParametersType,
   CardanoDRep |-> CardanoDRep, CardanoTxCertificate |-> CardanoTxCertificate,
   CardanoTxWithdrawal |-> CardanoTxWithdrawal,
   CardanoCVoteRegistrationDelegation |-> CardanoCVoteRegistrationDelegation,
   CardanoCVoteRegistrationParametersType |-> CardanoCVoteRegistrationParametersType,
   CardanoTxAuxiliaryData |-> CardanoTxAuxiliaryData,
   CardanoTxMint |-> CardanoTxMint,
   CardanoTxCollateralInput |-> CardanoTxCollateralInput,
   CardanoTxRequiredSigner |-> CardanoTxRequiredSigner,
   CardanoTxReferenceInput |-> CardanoTxReferenceInput,
   CardanoTxItemAck |-> CardanoTxItemAck,
   CardanoTxAuxiliaryDataSupplement |-> CardanoTxAuxiliaryDataSupplement,
   CardanoTxWitnessRequest |-> CardanoTxWitnessRequest,
   CardanoTxWitnessResponse |-> CardanoTxWitnessResponse,
   CardanoTxHostAck |-> CardanoTxHostAck,
   CardanoTxBodyHash |-> CardanoTxBodyHash,
   CardanoSignTxFinished |-> CardanoSignTxFinished]
=============================================================================
