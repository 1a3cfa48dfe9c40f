--------------------------- MODULE MCArtifactRead ---------------------------
(* Values of the constants of ArtifactRead for TLC: two operations of one   *)
(* tenant in different projects, a module and a stylesheet of equal digest, *)
(* sizes at and past the bound.                                             *)
EXTENDS ArtifactRead, TLC

CONSTANTS r1, r2

MCScope == "op1" :> [tenant |-> "t", project |-> "p1"]
           @@ "op2" :> [tenant |-> "t", project |-> "p2"]

Ref(d, n, c) == [digest |-> d, size |-> n, class |-> c]

MCPreviews ==
    "op1" :> {<<Ref("d1", maxPreviewArtifact, "js"), Ref("d1", maxPreviewArtifact, "css")>>,
              <<Ref("d2", maxPreviewArtifact + 1, "js"), Ref("d1", -1, "css")>>}
    @@ "op2" :> {<<Ref("d1", 0, "js")>>}
MCSources == {Ref("d3", 10, "tar")}

Tok == [kind |-> "signed", listed |-> FALSE, exp |-> 1, nbf |-> Unset, tenant |-> "t",
        actor |-> "a", project |-> "p1", roles |-> "names"]
MCTokens ==
    {Tok, [Tok EXCEPT !.kind = "refused", !.listed = TRUE], [Tok EXCEPT !.project = Unset],
     [Tok EXCEPT !.nbf = 3, !.exp = 4], [Tok EXCEPT !.tenant = "u"], [Tok EXCEPT !.roles = "invalid"]}

Status(c, w) == [code |-> c, word |-> w]
MCStatuses ==
    {Status("DeadlineExceeded", "other"), Status("ResourceExhausted", "other"),
     Status("Unavailable", "EFFECT_UNCERTAIN"), Status("FailedPrecondition", "EFFECT_UNCERTAIN")}

Ask(k, t, o, d) == [kind |-> k, token |-> t, op |-> o, digest |-> d, body |-> FALSE]
MCRequests ==
    r1 :> {Ask("artifact", Tok, "op1", "d1"), Ask("artifact", Tok, "op1", "d2"),
           Ask("preview", Tok, "op1", "d1"), Ask("release", Tok, "op1", "d1")}
          \cup {Ask("source", t, "op1", "d1") : t \in MCTokens}
          \cup {[Ask("preview", Tok, "op1", "d1") EXCEPT !.body = TRUE]}
          \cup {Ask("source", t, "op2", "d1") : t \in {Tok, [Tok EXCEPT !.project = Unset]}}
    @@ r2 :> {Ask("release", Tok, "op1", "d1")}
=============================================================================
