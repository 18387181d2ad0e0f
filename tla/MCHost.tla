---- MODULE MCHost ----
(* Host on a small system: one service with its watcher, two jobs, both, a resolver *)
EXTENDS Host

Few == {{"watch"}, {"jobs"}, {"dns"}, {"watch", "jobs"}}
====
