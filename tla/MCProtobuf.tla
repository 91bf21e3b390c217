----------------------------- MODULE MCProtobuf -----------------------------
(* Protobuf for TLC: every message and enum of the .proto files, and       *)
(* signed values whose zigzag takes one and two bytes.                     *)
EXTENDS Protobuf, MessagesDevice, MessagesBitcoin, MessagesEthereum,
        MessagesCardano, MessagesMonero, MessagesAltcoins

AllEnums == DeviceEnums @@ BitcoinEnums @@ EthereumEnums @@ CardanoEnums @@
            MoneroEnums @@ AltcoinEnums
AllMessages == DeviceMessages @@ BitcoinMessages @@ EthereumMessages @@
               CardanoMessages @@ MoneroMessages @@ AltcoinMessages
SignedValues == {-1, 64}
=============================================================================
