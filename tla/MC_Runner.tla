----------------------------- MODULE MC_Runner ------------------------------
(* Small instances of Runner: one or two installs, files a and b.  "render"  *)
(* listens to everything, "publish" skips own changes and `deleted`.         *)
EXTENDS Runner, TLC

CONSTANTS render, publish

Sync(p, t, own)   == [path |-> p, type |-> t, source |-> "sync", own |-> own, target |-> NoInstall]
\* `run` signs its event with this client's equipment number, `backfill` with none.
Command(p, s, i)  == [path |-> p, type |-> "created", source |-> s, own |-> s = "manual", target |-> i]

MCPaths == {"a", "b"}

\* One file, pulled and edited again, and a manual trigger on it.
OneFile == {Sync("a", "updated", FALSE), Command("a", "manual", render)}

\* Two files; publish skips its own device's changes and any `deleted`.
TwoFiles == {Sync("a", "updated", FALSE), Sync("a", "updated", TRUE), Sync("b", "deleted", FALSE),
             Command("b", "manual", publish), Command("b", "backfill", publish)}

MCMatches == {<<render, "a">>, <<render, "b">>, <<publish, "a">>, <<publish, "b">>} \cap (Installs \X Paths)
MCOn == [i \in Installs |-> IF i = publish THEN {"created", "updated"} ELSE EventTypes]
MCSkipOwn == {publish} \cap Installs
MCMaxAttempts == [i \in Installs |-> 2]

Threads == Permutations(Workers)
==============================================================================
