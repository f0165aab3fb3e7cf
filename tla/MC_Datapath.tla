---------------------------- MODULE MC_Datapath ----------------------------
(***************************************************************************)
(* Limbs of two bytes of three bits: words of eight bytes, addresses of    *)
(* five.                                                                   *)
(***************************************************************************)
EXTENDS Datapath

MCMessage ==
    [recipient |-> <<1, 2, 3, 4, 5>>, sender |-> <<7, 0, 4, 0, 1>>,
     value |-> <<0, 7, 0, 1, 2, 0, 0, 5>>, input |-> <<5, 6, 7, 1, 2, 3, 4, 5, 6, 7>>]
MCContext ==
    [tx_origin |-> <<5, 0, 0, 0, 0>>, block_coinbase |-> <<6, 0, 0, 0, 1>>,
     tx_gas_price |-> <<0, 0, 0, 0, 0, 0, 3, 3>>, chain_id |-> <<0, 0, 0, 0, 0, 0, 0, 1>>,
     block_base_fee |-> <<1, 0, 0, 0, 0, 0, 0, 0>>,
     block_number |-> 6, block_timestamp |-> 33, block_gas_limit |-> 12]
MCHash == <<0, 1, 1, 2, 3, 5, 0, 2>>
MCCode == <<1, 3, 5>>
=============================================================================
