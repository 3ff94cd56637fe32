----------------------------- MODULE MCDelivery -----------------------------
(* Up to two articles of one crawler, whose routes end in a QQ group, in a  *)
(* Bilibili account, or in both.                                            *)
EXTENDS Delivery

CONSTANTS a1, a2, f, group, bili, Routes

ToGroup == [via |-> f, to |-> group]
ToBili == [via |-> f, to |-> bili]

MCLegs == IF Routes = "group" THEN <<ToGroup>>
          ELSE IF Routes = "bili" THEN <<ToBili>>
          ELSE <<ToGroup, ToBili>>

MCRowKey == {MCLegs[n] : n \in 1 .. Len(MCLegs)} \X Article
MCCaller == 1 .. MaxInc

MCFiltered == {<<a2, bili>>}
=============================================================================
