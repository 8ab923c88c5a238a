----------------------------- MODULE MCBusClient -----------------------------
(* A small instance of BusClient: frames of a header of 4 units and slots of *)
(* 8, with payloads that fit the budget, the slot, or neither.               *)
EXTENDS BusClient

MCCalls == [pattern : {"REQUEST"}, more : {TRUE}, len : {0, 3}, corr : {0, 7}]
           \cup [pattern : {"CANCEL"}, more : {FALSE}, len : {0}, corr : {7}]
           \cup [pattern : {"REQUEST"}, more : {FALSE}, len : {5, 9}, corr : {7}]
MCForeign == {[flags |-> {"INLINE", "REQUEST"}, version |-> v, corr |-> 7, ref |-> 4,
               len |-> 3, generation |-> 0] : v \in BOOLEAN}
=============================================================================
