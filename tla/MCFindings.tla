----------------------------- MODULE MCFindings -----------------------------
(* Findings for TLC: two assets, four titles and five kinds of instance.   *)
EXTENDS Findings, TLC

CONSTANTS f1, f2, f3, f4, f5, q1, q2, web, db

MCAssetTraits == web :> [facing |-> TRUE, criticality |-> "HIGH"]
              @@ db :> [facing |-> FALSE, criticality |-> "CRITICAL"]

\* The first two titles differ by a path only; they and the last are similar to the
\* third, not to each other.
MCTokens == "csp header on /login" :> {"csp", "header"}
         @@ "csp header on /admin" :> {"csp", "header"}
         @@ "csp header, cookie flag" :> {"csp", "header", "cookie", "flag"}
         @@ "cookie flag" :> {"cookie", "flag"}
MCTitle == DOMAIN MCTokens

Csp == [asset |-> web, title |-> "csp header on /login", severity |-> "HIGH", cvss |-> NoCvss,
        days |-> 0, human |-> FALSE, steps |-> FALSE]
Both == [asset |-> db, title |-> "csp header, cookie flag", severity |-> "LOW",
         cvss |-> 98, days |-> 90, human |-> TRUE, steps |-> TRUE]
Flag == [asset |-> web, title |-> "cookie flag", severity |-> "CRITICAL", cvss |-> 10,
         days |-> 0, human |-> FALSE, steps |-> TRUE]
Again == [Csp EXCEPT !.severity = "unlisted"]  \* the same issue at another place
Unmatched == [Flag EXCEPT !.asset = NoAsset]
Nameless == [Csp EXCEPT !.title = NoTitle]
Elsewhere == [Csp EXCEPT !.title = "csp header on /admin"]
MCItem == {Csp, Both, Flag, Again, Unmatched, Nameless, Elsewhere}

\* Imports that repeat an issue, beside a retest; what is decided about findings;
\* overlapping retests of two findings; lists of up to five findings; AI calls.
MCInstance ==
  {[provider |-> "noop", rows |-> {f1, f2, f3}, hand |-> {}, format |-> "nuclei",
    batches |-> {{Csp, Again, Unmatched}, {Elsewhere, Nameless}},
    statuses |-> {}, retesters |-> {q1}, results |-> {"FIXED"}],
   [provider |-> "noop", rows |-> {f1, f2, f3}, hand |-> {Csp, Both, Flag},
    format |-> "normalized", batches |-> {},
    statuses |-> {"ACCEPTED_RISK"}, retesters |-> {q1}, results |-> {"FIXED", "NOT_FIXED"}],
   [provider |-> "noop", rows |-> {f4, f5}, hand |-> {Csp},
    format |-> "normalized", batches |-> {},
    statuses |-> {"ACCEPTED_RISK"}, retesters |-> {q1, q2}, results |-> {"FIXED", "NOT_FIXED"}],
   [provider |-> "noop", rows |-> Finding, hand |-> {Both, Flag},
    format |-> "normalized", batches |-> {},
    statuses |-> {}, retesters |-> {}, results |-> {}],
   [provider |-> "anthropic", rows |-> {f4, f5}, hand |-> {Both, Flag},
    format |-> "normalized", batches |-> {},
    statuses |-> {}, retesters |-> {}, results |-> {}]}

MCCaller == {f4, f5} \cup Request
MCSymmetry == Permutations({f1, f2, f3}) \cup Permutations({f4, f5})
=============================================================================
