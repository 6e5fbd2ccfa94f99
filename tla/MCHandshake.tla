----------------------------- MODULE MCHandshake -----------------------------
(* Messages of one peer, sent in the order of their timestamps, with what   *)
(* is needed for every transition, and an echo of the machine's own.        *)
EXTENDS Handshake

From(sender, type, ts) ==
  [type |-> type, sender |-> sender, sid |-> "sid-1", nonce |-> ts, ts |-> ts,
   expiry |-> 3]

Peer(type, ts) == From("peer-remote", type, ts)

Exchange == {
  Peer("bootstrap_announce", 1), Peer("bootstrap_ack", 2),
  Peer("connect_probe", 3), Peer("connect_confirm", 4)}

\* A second probe with the nonce of the first, and a message that expires early.
WholeExchange == Exchange \union {
  Peer("retry_hint", 2), Peer("rekey", 5), Peer("abort", 6),
  [Peer("connect_probe", 4) EXCEPT !.nonce = 3],
  [Peer("bootstrap_ack", 5) EXCEPT !.expiry = 1, !.nonce = 7],
  From("peer-local", "bootstrap_announce", 1)}
=============================================================================
