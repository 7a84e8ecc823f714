---------------------------- MODULE MCFileWriter ----------------------------
(***************************************************************************)
(* FileWriter with pages of four units and trees of at most 9 blocks       *)
(* (three leaves of three) and 6 nodes (three leaves of two).  writeM5Pst  *)
(* gets every number of blocks and nodes up to one too many, the nodes in  *)
(* several orders of their NIDs; writeBlocksPst gets every number of       *)
(* blocks up to one too many, writeXBlockPst payloads of every number of   *)
(* chunks that it takes, and each argument it refuses.                     *)
(***************************************************************************)
EXTENDS Inspector

CONSTANTS MaxB, MaxN

\* Data blocks first, then internal ones, as the encode loops have them: the
\* BIDs of the two kinds interleave.
StoreBlocks(n, lens) ==
  LET data == (n + 1) \div 2
  IN  [i \in 1..n |->
        [bid |-> IF i <= data THEN 4 * i ELSE 4 * (i - data) + 2,
         len |-> lens[((i - 1) % Len(lens)) + 1]]]

Orders(n) ==
  {[i \in 1..n |-> i], [i \in 1..n |-> n + 1 - i],
   [i \in 1..n |-> IF 2 * i - 1 <= n THEN 2 * i - 1 ELSE 2 * (n + 1 - i)]}

\* Every second node has a subnode tree, under the first internal block.
NodesOf(order, b) ==
  [i \in DOMAIN order |->
    [nid |-> 32 * order[i] + 2, bidData |-> 4 * i,
     bidSub |-> IF b > 1 /\ order[i] % 2 = 0 THEN 6 ELSE 0, nidParent |-> 0]]

StoreCalls ==
  {[entry |-> "M5", blocks |-> StoreBlocks(b, lens), nodes |-> NodesOf(order, b)] :
     b \in 0..MaxB, lens \in {<<1>>, <<2, 5, 1>>},
     order \in UNION {Orders(n) : n \in 0..MaxN}}

LooseCalls ==
  {[entry |-> "Blocks", sizes |-> [i \in 1..b |-> sizes[((i - 1) % 3) + 1]]] :
     b \in 0..MaxB, sizes \in {<<0, 3, 4>>, <<7, 7, 7>>}}

\* Payloads of n chunks, of which the last is full or not.
XBlockCalls(ns) ==
  {[entry |-> "XBlock", cbPayload |-> n * 3 - d, chunkSize |-> 3] : n \in ns, d \in 0..2}

RefusedCalls ==
  {[entry |-> "XBlock", cbPayload |-> 1, chunkSize |-> 0],
   [entry |-> "XBlock", cbPayload |-> 1, chunkSize |-> MaxBlockPayload + 1],
   [entry |-> "XBlock", cbPayload |-> 0, chunkSize |-> 1],
   [entry |-> "XBlock", cbPayload |-> MaxXChildren + 1, chunkSize |-> 1]}

MCCalls ==
  {[entry |-> "Empty"]} \cup StoreCalls \cup LooseCalls
    \cup XBlockCalls(1..MaxXChildren) \cup RefusedCalls

\* The payloads of full blocks that writer.hpp allows.
AddressableCalls ==
  {[entry |-> "XBlock", cbPayload |-> n * MaxBlockPayload, chunkSize |-> MaxBlockPayload] :
     n \in 1..MaxXChildren}

\* The second data block of some calls of each entry point is taken for a heap.
MCWalkFails(c, bid) ==
  CASE c.entry = "M5"     -> bid = 8 /\ Len(c.nodes) % 2 = 1
    [] c.entry = "Blocks" -> bid = 4 /\ c.sizes # <<>> /\ c.sizes[1] = 7
    [] c.entry = "XBlock" -> bid = 4 /\ c.cbPayload % 2 = 0
    [] OTHER              -> FALSE

=============================================================================
