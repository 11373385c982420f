----------------------------- MODULE MCLwipComm -----------------------------
(* The buffers of bring-up, in units of 4 KB, rounded. *)
EXTENDS LwipComm

PoolNames == {"DMADscrTabs", "Rx_Buff", "Tx_Buff", "memp_memory", "ram_heap"}
Sizes == [p \in PoolNames |->
            CASE p = "DMADscrTabs" -> 0 [] p \in {"Rx_Buff", "Tx_Buff"} -> 2
              [] OTHER -> 4]
=============================================================================
