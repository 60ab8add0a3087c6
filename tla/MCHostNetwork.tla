--------------------------- MODULE MCHostNetwork ----------------------------
(***************************************************************************)
(* Who presents whose identity: every host its own, or also the other's.   *)
(* On a path that forgets nothing the answers to datagrams of no host pile *)
(* up, hence a bound on them.                                              *)
(***************************************************************************)
EXTENDS HostNetwork

CONSTANT MaxForgedAnswers  \* bound: answers to forged datagrams on the path

OwnTrailers == [h \in Hosts |-> {h}]

AnyTrailers == [h \in Hosts |-> Hosts]

\* Sent to nobody, or a cookie for a key that nobody drew, or one that the
\* responder did not mint.  (A replayed msg1 with its cookie is none of these.)
ForgedAnswer(d) ==
  \/ d.dst = Nobody
  \/ d.body.type = "challenge" /\ d.body.mac.e = OpaqueBytes
  \/ d.body.type = "msg1_cookie" /\ ~ verify(d.dst, d.src, d.body.e, d.body.mac)

FewForgedAnswers ==
  Cardinality({d \in net : ForgedAnswer(d)}) <= MaxForgedAnswers

=============================================================================
