------------------------- MODULE CodexDeliveryClaims -------------------------
(* A sentence of the source that the code does not keep.                   *)
EXTENDS CodexDelivery

(* "keep this item as the queue's commit barrier until the heartbeat-owned  *)
(* state retry succeeds.  Later messages must not make the durable receipt  *)
(* stream disagree with surface order" (bridge.ts:4878): the head of a      *)
(* queue stays while its receipt is not written.                           *)
HeadWaitsForItsReceipt ==
  [][\A q \in Queue :
       LET head == Head(mem.queue[q])
       IN  (/\ mem.queue[q] # <<>>
            /\ head \in mem.waiting
            /\ hub.permit[head] = "ACTIVE"
            /\ life' # "down")
           => mem'.queue[q] # <<>> /\ Head(mem'.queue[q]) = head]_vars
=============================================================================
