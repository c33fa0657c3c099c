------------------------------- MODULE MCAgent -------------------------------
(***************************************************************************)
(* The agent on a small instance: two grants the server signed, and the  *)
(* same texts altered, mislabelled or meant for somebody else.             *)
(***************************************************************************)
EXTENDS Agent, TLC

CONSTANTS k1, k2, g1, g2, op, dev, other, org, view, input, root

Claims(jti, caps, mode, nbf, exp) ==
    [v |-> 1, jti |-> jti, org |-> org, operator |-> op, device |-> dev,
     caps |-> caps, mode |-> mode, nbf |-> nbf, exp |-> exp]

Grant1 == Claims(g1, {view, input}, "attended", 0, 3)
Grant2 == Claims(g2, {view}, "unattended", 2, 4)

Tok(claims) == [form |-> "ok", kid |-> k1, signer |-> k1, claims |-> claims]

GoodTokens == {Tok(Grant1), Tok(Grant2)}

\* Everything verify has a reason to refuse.
BadTokens ==
    {[Tok(Grant1) EXCEPT !.form = f] :
        f \in {"too_long", "malformed", "bad_signature", "bad_payload"}}
    \cup {[Tok(Grant1) EXCEPT !.kid = k2, !.signer = k2],
          [Tok(Grant1) EXCEPT !.signer = NoKey, !.claims.exp = 2]}
    \cup {Tok(c) : c \in {[Grant1 EXCEPT !.v = 2, !.jti = op],
                          [Grant1 EXCEPT !.exp = 4 + MaxLifetime, !.jti = dev],
                          [Grant1 EXCEPT !.device = other, !.jti = other],
                          [Grant1 EXCEPT !.caps = {root}, !.jti = root],
                          [Grant1 EXCEPT !.operator = Blank, !.jti = view],
                          [Grant1 EXCEPT !.jti = Blank]}}

MCTokens == GoodTokens \cup BadTokens
MCCapability == {view, input}
MCTrusted == {k1}
SlotSymmetry == Permutations(Slot)

=============================================================================
