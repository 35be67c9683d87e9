------------------------------ MODULE MCBackups -------------------------------
(* A client's data for TLC: one kind of instance per group of actors. *)
EXTENDS Backups

CONSTANTS MCUploader, MCDumper, MCBackup, c, e1, t1, n1, v1, q1, q2, q3, q4, d1, w1, w2, o1, s1,
          l1, k1, m1

MCKindOf == c :> "client" @@ e1 :> "engagement" @@ d1 :> "document" @@ t1 :> "test"
         @@ n1 :> "finding" @@ v1 :> "evidence" @@ q1 :> "report" @@ q2 :> "report"
         @@ q3 :> "report" @@ q4 :> "report" @@ w1 :> "check" @@ w2 :> "check"
         @@ o1 :> "session" @@ s1 :> "user" @@ l1 :> "cloud" @@ k1 :> "credential"
         @@ m1 :> "ledger"
MCParentOf == c :> c @@ e1 :> c @@ d1 :> e1 @@ t1 :> e1 @@ n1 :> t1 @@ v1 :> n1
           @@ q1 :> e1 @@ q2 :> e1 @@ q3 :> e1 @@ q4 :> e1 @@ w1 :> e1 @@ w2 :> e1
           @@ o1 :> e1 @@ s1 :> c @@ l1 :> c @@ k1 :> c @@ m1 :> c
MCTypeOf == q1 :> "EXECUTIVE" @@ q2 :> "EXECUTIVE" @@ q3 :> "EXECUTIVE" @@ q4 :> "TECHNICAL"

MCSymmetry == Permutations(Uploader) \cup Permutations(MCBackup)

Nobody == [initial |-> {c}, later |-> {}, keys |-> {}, editors |-> {}, sweepers |-> {},
           uploaders |-> {}, erasers |-> {}, dumpers |-> {}, backups |-> {},
           restores |-> 0, crashes |-> 0]

\* Keys, edits and rotation; rotation of a check; uploads against an erasure;
\* reports, and of two types; a signed document against an erasure; files and the
\* client's own key; rows made during an erasure; users and credentials;
\* concurrent backups; a backup of what is uploaded, signed and erased
\* meanwhile, and restored.
MCInstance ==
  {[Nobody EXCEPT !.initial = {c, e1}, !.later = {k1}, !.keys = TenantKey,
                  !.editors = Editor, !.sweepers = Sweeper],
   [Nobody EXCEPT !.initial = {c, e1}, !.later = {w1}, !.editors = Editor, !.sweepers = Sweeper],
   [Nobody EXCEPT !.initial = {c, e1, t1, n1}, !.later = {w1, v1, q1},
                  !.uploaders = Uploader, !.erasers = Eraser, !.crashes = 1],
   [Nobody EXCEPT !.initial = {c, e1}, !.later = {q1, q2, q3}, !.uploaders = Uploader],
   [Nobody EXCEPT !.initial = {c, e1}, !.later = {q1, q4}, !.uploaders = MCUploader],
   [Nobody EXCEPT !.initial = {c, e1}, !.later = {d1, k1}, !.uploaders = MCUploader,
                  !.erasers = Eraser, !.crashes = 1],
   [Nobody EXCEPT !.initial = {c, e1, t1, n1}, !.later = {v1, q1, k1}, !.keys = TenantKey,
                  !.uploaders = MCUploader],
   [Nobody EXCEPT !.initial = {c, e1}, !.later = {s1, t1, n1, w1, w2, o1, m1}, !.erasers = Eraser],
   [Nobody EXCEPT !.later = {s1, l1, k1}, !.keys = TenantKey, !.erasers = Eraser],
   [Nobody EXCEPT !.dumpers = Dumper, !.backups = Backup],
   [Nobody EXCEPT !.initial = {c, e1}, !.later = {q1}, !.uploaders = MCUploader,
                  !.erasers = Eraser, !.dumpers = MCDumper,
                  !.backups = MCBackup, !.restores = 1],
   [Nobody EXCEPT !.initial = {c, e1}, !.later = {d1}, !.uploaders = MCUploader,
                  !.erasers = Eraser, !.dumpers = MCDumper,
                  !.backups = Backup \ MCBackup, !.restores = 1]}
=============================================================================
