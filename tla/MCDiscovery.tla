----------------------------- MODULE MCDiscovery -----------------------------
(* Discovery on six kinds of small instance. *)
EXTENDS Discovery

CONSTANTS j1, j2, j3, r1, r2, r3, h1, s1, s2

Web(service) == [port |-> 80, state |-> "open", service |-> service]
Tls(state) == [port |-> 443, state |-> state, service |-> "https"]

Nginx == {Web("nginx")}
Apache == {Web("apache"), Tls("filtered")}
MCOutput == {Nginx, Apache, {Web("nginx"), Tls("open")}}

\* One host of which jobs race to make rows; one host whose ports change while
\* cycles overlap, fail, or die; one host under review; a watch on Vercel.
MCInstance ==
  {[entry |-> "server", sweepers |-> {s1}, rows |-> {r1, r2, r3}, hosts |-> {h1},
    jobs |-> {j1, j2, j3}, outputs |-> {}, reviews |-> FALSE, faults |-> 0, crashes |-> 1],
   [entry |-> "server", sweepers |-> {s1, s2}, rows |-> {r1}, hosts |-> {h1},
    jobs |-> {j1, j2, j3}, outputs |-> {Nginx}, reviews |-> FALSE, faults |-> 1, crashes |-> 0],
   [entry |-> "server", sweepers |-> {s1, s2}, rows |-> {r1}, hosts |-> {h1},
    jobs |-> {j1, j2, j3}, outputs |-> {Nginx, Apache}, reviews |-> FALSE, faults |-> 0, crashes |-> 1],
   [entry |-> "server", sweepers |-> {s1}, rows |-> {r1}, hosts |-> {h1}, jobs |-> {j1, j2},
    outputs |-> MCOutput, reviews |-> FALSE, faults |-> 1, crashes |-> 1],
   [entry |-> "server", sweepers |-> {s1}, rows |-> {r1}, hosts |-> {h1}, jobs |-> {j1},
    outputs |-> {}, reviews |-> TRUE, faults |-> 1, crashes |-> 1],
   [entry |-> "serverless", sweepers |-> {s1}, rows |-> {r1}, hosts |-> {h1}, jobs |-> {j1, j2},
    outputs |-> {Nginx}, reviews |-> FALSE, faults |-> 0, crashes |-> 1]}
=============================================================================
