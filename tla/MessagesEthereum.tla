-------------------------- MODULE MessagesEthereum --------------------------
(* Ethereum messages, with the external definitions and EIP-712.           *)
(* One definition per generated struct of the client: its fields in the    *)
(* order they are written, and the default its getter gives.               *)
EXTENDS ProtoFields

EthereumDefinitionType == 0 .. 1
EthereumDataType == 1 .. 8

EthereumGetPublicKey ==
  <<Rep(1, "address_n", uint32), Opt(2, "show_display", bool)>>
EthereumPublicKey ==
  <<Req(1, "node", Msg("HDNodeType")), Req(2, "xpub", string)>>
EthereumGetAddress ==
  <<Rep(1, "address_n", uint32), Opt(2, "show_display", bool),
    Opt(3, "encoded_network", bytes), Opt(4, "chunkify", bool)>>
EthereumAddress ==
  <<Opt(1, "_old_address", bytes), Opt(2, "address", string)>>
EthereumSignTx ==
  <<Rep(1, "address_n", uint32), Def(2, "nonce", bytes, 0),
    Req(3, "gas_price", bytes), Req(4, "gas_limit", bytes),
    Def(11, "to", string, 0), Def(6, "value", bytes, 0),
    Def(7, "data_initial_chunk", bytes, 0), Def(8, "data_length", uint32, 0),
    Req(9, "chain_id", uint64), Opt(10, "tx_type", uint32),
    Opt(12, "definitions", Msg("EthereumDefinitions")),
    Opt(13, "chunkify", bool)>>
EthereumSignTxEIP1559 ==
  <<Rep(1, "address_n", uint32), Req(2, "nonce", bytes),
    Req(3, "max_gas_fee", bytes), Req(4, "max_priority_fee", bytes),
    Req(5, "gas_limit", bytes), Def(6, "to", string, 0),
    Req(7, "value", bytes), Def(8, "data_initial_chunk", bytes, 0),
    Req(9, "data_length", uint32), Req(10, "chain_id", uint64),
    Rep(11, "access_list", Msg("EthereumAccessList")),
    Opt(12, "definitions", Msg("EthereumDefinitions")),
    Opt(13, "chunkify", bool)>>
EthereumAccessList ==
  <<Req(1, "address", string), Rep(2, "storage_keys", bytes)>>
EthereumTxRequest ==
  <<Opt(1, "data_length", uint32), Opt(2, "signature_v", uint32),
    Opt(3, "signature_r", bytes), Opt(4, "signature_s", bytes)>>
EthereumTxAck == <<Req(1, "data_chunk", bytes)>>
EthereumSignMessage ==
  <<Rep(1, "address_n", uint32), Req(2, "message", bytes),
    Opt(3, "encoded_network", bytes), Opt(4, "chunkify", bool)>>
EthereumMessageSignature ==
  <<Req(2, "signature", bytes), Req(3, "address", string)>>
EthereumVerifyMessage ==
  <<Req(2, "signature", bytes), Req(3, "message", bytes),
    Req(4, "address", string), Opt(5, "chunkify", bool)>>
EthereumSignTypedHash ==
  <<Rep(1, "address_n", uint32), Req(2, "domain_separator_hash", bytes),
    Opt(3, "message_hash", bytes), Opt(4, "encoded_network", bytes)>>
EthereumTypedDataSignature ==
  <<Req(1, "signature", bytes), Req(2, "address", string)>>
EthereumNetworkInfo ==
  <<Req(1, "chain_id", uint64), Req(2, "symbol", string),
    Req(3, "slip44", uint32), Req(4, "name", string)>>
EthereumTokenInfo ==
  <<Req(1, "address", bytes), Req(2, "chain_id", uint64),
    Req(3, "symbol", string), Req(4, "decimals", uint32),
    Req(5, "name", string)>>
EthereumDefinitions ==
  <<Opt(1, "encoded_network", bytes), Opt(2, "encoded_token", bytes)>>
EthereumSignTypedData ==
  <<Rep(1, "address_n", uint32), Req(2, "primary_type", string),
    Def(3, "metamask_v4_compat", bool, TRUE),
    Opt(4, "definitions", Msg("EthereumDefinitions"))>>
EthereumTypedDataStructRequest == <<Req(1, "name", string)>>
EthereumTypedDataStructAck ==
  <<Rep(1, "members", Msg("EthereumStructMember"))>>
EthereumStructMember ==
  <<Req(1, "type", Msg("EthereumFieldType")), Req(2, "name", string)>>
EthereumFieldType ==
  <<Req(1, "data_type", Enum("EthereumDataType")), Opt(2, "size", uint32),
    Opt(3, "entry_type", Msg("EthereumFieldType")),
    Opt(4, "struct_name", string)>>
EthereumTypedDataValueRequest == <<Rep(1, "member_path", uint32)>>
EthereumTypedDataValueAck == <<Req(1, "value", bytes)>>

(* The definitions by their names.                                         *)
EthereumEnums ==
  [EthereumDefinitionType |-> EthereumDefinitionType,
   EthereumDataType |-> EthereumDataType]
EthereumMessages ==
  [EthereumGetPublicKey |-> EthereumGetPublicKey,
   EthereumPublicKey |-> EthereumPublicKey,
   EthereumGetAddress |-> EthereumGetAddress,
   EthereumAddress |-> EthereumAddress, EthereumSignTx |-> EthereumSignTx,
   EthereumSignTxEIP1559 |-> EthereumSignTxEIP1559,
   EthereumAccessList |-> EthereumAccessList,
   EthereumTxRequest |-> EthereumTxRequest, EthereumTxAck |-> EthereumTxAck,
   EthereumSignMessage |-> EthereumSignMessage,
   EthereumMessageSignature |-> EthereumMessageSignature,
   EthereumVerifyMessage |-> EthereumVerifyMessage,
   EthereumSignTypedHash |-> EthereumSignTypedHash,
   EthereumTypedDataSignature |-> EthereumTypedDataSignature,
   EthereumNetworkInfo |-> EthereumNetworkInfo,
   EthereumTokenInfo |-> EthereumTokenInfo,
   EthereumDefinitions |-> EthereumDefinitions,
   EthereumSignTypedData |-> EthereumSignTypedData,
   EthereumTypedDataStructRequest |-> EthereumTypedDataStructRequest,
   EthereumTypedDataStructAck |-> EthereumTypedDataStructAck,
   EthereumStructMember |-> EthereumStructMember,
   EthereumFieldType |-> EthereumFieldType,
   EthereumTypedDataValueRequest |-> EthereumTypedDataValueRequest,
   EthereumTypedDataValueAck |-> EthereumTypedDataValueAck]
=============================================================================
