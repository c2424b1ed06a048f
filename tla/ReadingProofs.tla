---------------------------- MODULE ReadingProofs -----------------------------
(***************************************************************************)
(* Theorems about the reading pane of Desk and about its folders, for      *)
(* every value of the constants.                                           *)
(***************************************************************************)
EXTENDS Desk, WellFoundedInduction, FiniteSetTheorems, TLAPS

(*****************************************************************************)
(* RP, the reading pane and its window (ReadingPane).  Every badge that      *)
(* waits has what it waits for; and what is asked for the presentation on    *)
(* screen is of its message, and of octets that are known for what they      *)
(* are.                                                                      *)
(*****************************************************************************)

Shape(x) == x \in [uid : {x.uid}, shown : {x.shown}, turn : Nat, octets : {x.octets}, cached : BOOLEAN,
                   dkim : {x.dkim}, checking : BOOLEAN, tries : {x.tries}, sig : {x.sig},
                   sigBusy : BOOLEAN, sigCached : {x.sigCached}, verify : {x.verify}, decrypt : {x.decrypt}]
IsWorld(w) == /\ w \in [ctx : {w.ctx}, checks : {w.checks}, jobs : {w.jobs}]
              /\ w.ctx \in [RP!Contexts -> {w.ctx[c] : c \in RP!Contexts}]
              /\ \A c \in RP!Contexts : Shape(w.ctx[c])

\* The fields the DKIM check works with, and those gpg's jobs do.
SameCheck(x, y) == /\ x.uid = y.uid /\ x.shown = y.shown /\ x.turn = y.turn /\ x.octets = y.octets
                   /\ x.cached = y.cached /\ x.checking = y.checking
SameJob(x, y)   == x.uid = y.uid /\ x.shown = y.shown /\ x.sigBusy = y.sigBusy /\ x.decrypt = y.decrypt

\* A world with one context replaced, or one of its sets.
WithCtx(w, c, x)  == [w EXCEPT !.ctx = [w.ctx EXCEPT ![c] = x]]
WithChecks(w, s)  == [w EXCEPT !.checks = s]
WithJobs(w, s)    == [w EXCEPT !.jobs = s]

LEMMA CtxReplaced ==
    ASSUME NEW w, IsWorld(w), NEW c \in RP!Contexts, NEW x, Shape(x)
    PROVE  /\ IsWorld(WithCtx(w, c, x)) /\ WithCtx(w, c, x).ctx[c] = x
           /\ \A d \in RP!Contexts \ {c} : WithCtx(w, c, x).ctx[d] = w.ctx[d]
           /\ WithCtx(w, c, x).checks = w.checks /\ WithCtx(w, c, x).jobs = w.jobs
<1> DEFINE a == [w.ctx EXCEPT ![c] = x]
           y == WithCtx(w, c, x)
<1>1. /\ a[c] = x /\ \A d \in RP!Contexts \ {c} : a[d] = w.ctx[d]
      /\ a \in [RP!Contexts -> {a[d] : d \in RP!Contexts}] /\ \A d \in RP!Contexts : Shape(a[d])
  BY DEF IsWorld
<1>2. y = [w EXCEPT !.ctx = a]
  BY DEF WithCtx
<1> HIDE DEF a, y
<1>3. y.ctx = a /\ y.checks = w.checks /\ y.jobs = w.jobs /\ y \in [ctx : {a}, checks : {w.checks}, jobs : {w.jobs}]
  BY <1>2 DEF IsWorld
<1>4. IsWorld(y)
  BY <1>1, <1>3 DEF IsWorld
<1> QED BY <1>1, <1>3, <1>4 DEF y

LEMMA SetsReplaced ==
    ASSUME NEW w, IsWorld(w), NEW s
    PROVE  /\ IsWorld(WithChecks(w, s)) /\ WithChecks(w, s).ctx = w.ctx
           /\ WithChecks(w, s).checks = s /\ WithChecks(w, s).jobs = w.jobs
           /\ IsWorld(WithJobs(w, s)) /\ WithJobs(w, s).ctx = w.ctx
           /\ WithJobs(w, s).jobs = s /\ WithJobs(w, s).checks = w.checks
<1>1. /\ WithChecks(w, s).ctx = w.ctx /\ WithChecks(w, s).checks = s /\ WithChecks(w, s).jobs = w.jobs
      /\ WithChecks(w, s) \in [ctx : {w.ctx}, checks : {s}, jobs : {w.jobs}]
  BY DEF IsWorld, WithChecks
<1>2. /\ WithJobs(w, s).ctx = w.ctx /\ WithJobs(w, s).checks = w.checks /\ WithJobs(w, s).jobs = s
      /\ WithJobs(w, s) \in [ctx : {w.ctx}, checks : {w.checks}, jobs : {s}]
  BY DEF IsWorld, WithJobs
<1>3. IsWorld(WithChecks(w, s)) /\ IsWorld(WithJobs(w, s))
  BY <1>1, <1>2 DEF IsWorld
<1> QED BY <1>1, <1>2, <1>3

\* What a check that is submitted says of itself.
NewCheck(w, c) == [id |-> RP!Fresh(w.checks), ctx |-> c, of |-> w.ctx[c].shown,
                   octets |-> w.ctx[c].octets, turn |-> w.ctx[c].turn]

LEMMA Submits ==
    ASSUME NEW w, IsWorld(w), NEW c \in RP!Contexts
    PROVE  /\ IsWorld(RP!SubmitDkim(w, c)) /\ RP!SubmitDkim(w, c).jobs = w.jobs
           /\ RP!SubmitDkim(w, c).checks = w.checks \cup {NewCheck(w, c)}
           /\ \A d \in RP!Contexts \ {c} : RP!SubmitDkim(w, c).ctx[d] = w.ctx[d]
           /\ RP!SubmitDkim(w, c).ctx[c] = [w.ctx[c] EXCEPT !.checking = TRUE]
<1> DEFINE x == [w.ctx[c] EXCEPT !.checking = TRUE]
           s == w.checks \cup {NewCheck(w, c)}
           a == [w.ctx EXCEPT ![c] = x]
<1>1. RP!SubmitDkim(w, c) = [w EXCEPT !.ctx = a, !.checks = s]
  BY DEF RP!SubmitDkim, NewCheck
<1>2. Shape(x)
  BY DEF IsWorld, Shape
<1> HIDE DEF s, a
<1>3. RP!SubmitDkim(w, c) = [[w EXCEPT !.ctx = a] EXCEPT !.checks = s]
  BY <1>1
<1> HIDE DEF x
<1>4. RP!SubmitDkim(w, c) = WithChecks(WithCtx(w, c, x), s)
  BY <1>3 DEF a, WithCtx, WithChecks
<1>5. /\ IsWorld(RP!SubmitDkim(w, c)) /\ RP!SubmitDkim(w, c).jobs = w.jobs
      /\ RP!SubmitDkim(w, c).checks = s
      /\ \A d \in RP!Contexts \ {c} : RP!SubmitDkim(w, c).ctx[d] = w.ctx[d]
      /\ RP!SubmitDkim(w, c).ctx[c] = x
  <2>1. /\ IsWorld(WithCtx(w, c, x)) /\ WithCtx(w, c, x).ctx[c] = x
        /\ \A d \in RP!Contexts \ {c} : WithCtx(w, c, x).ctx[d] = w.ctx[d]
        /\ WithCtx(w, c, x).jobs = w.jobs
    BY <1>2, CtxReplaced
  <2> QED BY <1>4, <2>1, SetsReplaced
<1> QED BY <1>5 DEF x, s

\* The context a check is submitted for.
LEMMA Checking ==
    ASSUME NEW x, Shape(x)
    PROVE  /\ Shape([x EXCEPT !.checking = TRUE]) /\ [x EXCEPT !.checking = TRUE].checking
           /\ SameJob([x EXCEPT !.checking = TRUE], x)
           /\ [x EXCEPT !.checking = TRUE].turn = x.turn /\ [x EXCEPT !.checking = TRUE].octets = x.octets
           /\ [x EXCEPT !.checking = TRUE].cached = x.cached
BY DEF Shape, SameJob

\* The context startDkimVerification() leaves: what it shows is untouched.
LEMMA Begins ==
    ASSUME NEW w, IsWorld(w), NEW c \in RP!Contexts, NEW cached \in BOOLEAN
    PROVE  /\ IsWorld(RP!StartDkim(w, c, cached)) /\ RP!StartDkim(w, c, cached).jobs = w.jobs
           /\ \A d \in RP!Contexts \ {c} : RP!StartDkim(w, c, cached).ctx[d] = w.ctx[d]
           /\ SameJob(RP!StartDkim(w, c, cached).ctx[c], w.ctx[c])
           /\ RP!StartDkim(w, c, cached).ctx[c].turn = w.ctx[c].turn /\ RP!StartDkim(w, c, cached).ctx[c].octets = w.ctx[c].octets
           /\ \/ RP!StartDkim(w, c, cached).checks = w.checks /\ ~RP!StartDkim(w, c, cached).ctx[c].checking /\ ~RP!StartDkim(w, c, cached).ctx[c].cached
              \/ /\ RP!StartDkim(w, c, cached).checks = w.checks \cup {NewCheck(w, c)}
                 /\ RP!StartDkim(w, c, cached).ctx[c].checking /\ RP!StartDkim(w, c, cached).ctx[c].cached = cached
<1> DEFINE v == RP!StartDkim(w, c, cached)
<1> SUFFICES
           /\ IsWorld(v) /\ v.jobs = w.jobs
           /\ \A d \in RP!Contexts \ {c} : v.ctx[d] = w.ctx[d]
           /\ SameJob(v.ctx[c], w.ctx[c])
           /\ v.ctx[c].turn = w.ctx[c].turn /\ v.ctx[c].octets = w.ctx[c].octets
           /\ \/ v.checks = w.checks /\ ~v.ctx[c].checking /\ ~v.ctx[c].cached
              \/ /\ v.checks = w.checks \cup {NewCheck(w, c)}
                 /\ v.ctx[c].checking /\ v.ctx[c].cached = cached
  OBVIOUS
<1> DEFINE y == w.ctx[c]
           m == w.ctx[c].uid
           x1 == [y EXCEPT !.tries = 0]
           x2 == [x1 EXCEPT !.checking = FALSE]
           x3 == [x2 EXCEPT !.cached = cached]
           x4 == [x3 EXCEPT !.dkim = verdict[m].status]
           x5 == [x4 EXCEPT !.cached = FALSE]
           z == [w EXCEPT !.ctx[c].tries = 0, !.ctx[c].checking = FALSE, !.ctx[c].cached = cached,
                          !.ctx[c].dkim = verdict[m].status]
<1>1. Shape(y)
  BY DEF IsWorld
<1>2. /\ Shape(x4) /\ SameJob(x4, y) /\ x4.turn = y.turn /\ x4.octets = y.octets
      /\ ~x4.checking /\ x4.cached = cached
  <2> HIDE DEF y, m
  <2>1. Shape(x1) /\ SameJob(x1, y) /\ x1.turn = y.turn /\ x1.octets = y.octets
    BY <1>1 DEF Shape, SameJob
  <2> HIDE DEF x1
  <2>2. Shape(x2) /\ SameJob(x2, x1) /\ x2.turn = x1.turn /\ x2.octets = x1.octets /\ ~x2.checking
    BY <2>1 DEF Shape, SameJob
  <2> HIDE DEF x2
  <2>3. /\ Shape(x3) /\ SameJob(x3, x2) /\ x3.turn = x2.turn /\ x3.octets = x2.octets
        /\ x3.checking = x2.checking /\ x3.cached = cached
    BY <2>2 DEF Shape, SameJob
  <2> HIDE DEF x3
  <2>4. /\ Shape(x4) /\ SameJob(x4, x3) /\ x4.turn = x3.turn /\ x4.octets = x3.octets
        /\ x4.checking = x3.checking /\ x4.cached = x3.cached
    BY <2>3 DEF Shape, SameJob
  <2> QED BY <2>1, <2>2, <2>3, <2>4 DEF SameJob
<1>3. z = WithCtx(w, c, x4)
  BY DEF WithCtx
<1> HIDE DEF x4, z, y
<1>4. /\ Shape(x5) /\ SameJob(x5, x4) /\ x5.turn = x4.turn /\ x5.octets = x4.octets
      /\ x5.checking = x4.checking /\ ~x5.cached
  BY <1>2 DEF Shape, SameJob
<1>5. /\ IsWorld(z) /\ z.ctx[c] = x4 /\ z.checks = w.checks /\ z.jobs = w.jobs
      /\ \A d \in RP!Contexts \ {c} : z.ctx[d] = w.ctx[d]
  BY <1>2, <1>3, CtxReplaced
<1>6. v = IF verdict[m] # RP!Unset THEN [z EXCEPT !.ctx[c].cached = FALSE] ELSE RP!SubmitDkim(z, c)
  BY DEF RP!StartDkim, z
<1>7. [z EXCEPT !.ctx[c].cached = FALSE] = WithCtx(z, c, x5)
  BY <1>5 DEF WithCtx
<1> HIDE DEF x5, m
<1>8. CASE verdict[m] # RP!Unset
  <2>1. v = WithCtx(z, c, x5)
    BY <1>6, <1>7, <1>8
  <2>2. /\ IsWorld(v) /\ v.ctx[c] = x5 /\ v.checks = w.checks /\ v.jobs = w.jobs
        /\ \A d \in RP!Contexts \ {c} : v.ctx[d] = w.ctx[d]
    BY <1>4, <1>5, <2>1, CtxReplaced
  <2> QED BY <1>2, <1>4, <2>2 DEF SameJob, y
<1>9. CASE verdict[m] = RP!Unset
  <2>1. v = RP!SubmitDkim(z, c)
    BY <1>6, <1>9
  <2>2. /\ IsWorld(v) /\ v.jobs = z.jobs /\ v.checks = z.checks \cup {NewCheck(z, c)}
        /\ \A d \in RP!Contexts \ {c} : v.ctx[d] = z.ctx[d]
        /\ v.ctx[c] = [z.ctx[c] EXCEPT !.checking = TRUE]
    BY <1>5, <2>1, Submits
  <2>3. NewCheck(z, c) = NewCheck(w, c)
    BY <1>2, <1>5 DEF NewCheck, SameJob, y
  <2>4. /\ v.ctx[c].checking /\ SameJob(v.ctx[c], x4) /\ v.ctx[c].turn = x4.turn
        /\ v.ctx[c].octets = x4.octets /\ v.ctx[c].cached = x4.cached
    BY <1>2, <1>5, <2>2, Checking
  <2> QED BY <1>2, <1>5, <2>2, <2>3, <2>4 DEF SameJob, y
<1> QED BY <1>8, <1>9

\* What a job that is started says of itself.
NewJob(w, c, kind) == [id |-> RP!Fresh(w.jobs), kind |-> kind, of |-> w.ctx[c].shown,
                       octets |-> w.ctx[c].octets, waiting |-> {c}]

JobsOK(js) == \A j \in js : j \in [id : {j.id}, kind : {j.kind}, of : {j.of}, octets : {j.octets},
                                 waiting : SUBSET RP!Contexts]

\* The context a job of gpg leaves: what the DKIM check works with is untouched.
LEMMA Engages ==
    ASSUME NEW w, IsWorld(w), NEW c \in RP!Contexts, NEW kind, NEW cached
    PROVE  /\ IsWorld(RP!StartJob(w, c, kind, cached)) /\ RP!StartJob(w, c, kind, cached).checks = w.checks /\ RP!StartJob(w, c, kind, cached).jobs = w.jobs \cup {NewJob(w, c, kind)}
           /\ \A d \in RP!Contexts \ {c} : RP!StartJob(w, c, kind, cached).ctx[d] = w.ctx[d]
           /\ SameCheck(RP!StartJob(w, c, kind, cached).ctx[c], w.ctx[c]) /\ RP!StartJob(w, c, kind, cached).ctx[c].sigBusy
           /\ RP!StartJob(w, c, kind, cached).ctx[c].decrypt = IF kind = "decrypt" THEN NewJob(w, c, kind).id ELSE w.ctx[c].decrypt
<1> DEFINE v == RP!StartJob(w, c, kind, cached)
<1> SUFFICES
           /\ IsWorld(v) /\ v.checks = w.checks /\ v.jobs = w.jobs \cup {NewJob(w, c, kind)}
           /\ \A d \in RP!Contexts \ {c} : v.ctx[d] = w.ctx[d]
           /\ SameCheck(v.ctx[c], w.ctx[c]) /\ v.ctx[c].sigBusy
           /\ v.ctx[c].decrypt = IF kind = "decrypt" THEN NewJob(w, c, kind).id ELSE w.ctx[c].decrypt
  OBVIOUS
<1> DEFINE y == w.ctx[c]
           i == RP!Fresh(w.jobs)
           J == w.jobs \cup {NewJob(w, c, kind)}
           sc == IF kind = "verify" THEN cached ELSE y.sigCached
           vf == IF kind = "verify" THEN i ELSE y.verify
           dc == IF kind = "decrypt" THEN i ELSE y.decrypt
           x1 == [y EXCEPT !.sigBusy = TRUE]
           x2 == [x1 EXCEPT !.sigCached = sc]
           x3 == [x2 EXCEPT !.verify = vf]
           x4 == [x3 EXCEPT !.decrypt = dc]
<1>1. Shape(y) /\ i = NewJob(w, c, kind).id
  BY DEF IsWorld, NewJob
<1>2. v = [w EXCEPT !.ctx[c].sigBusy = TRUE, !.ctx[c].sigCached = sc, !.ctx[c].verify = vf,
                    !.ctx[c].decrypt = dc, !.jobs = J]
  BY DEF RP!StartJob, NewJob
<1> HIDE DEF J, i, sc, vf, dc
<1>3. [w EXCEPT !.ctx[c].sigBusy = TRUE, !.ctx[c].sigCached = sc, !.ctx[c].verify = vf, !.ctx[c].decrypt = dc]
      = WithCtx(w, c, x4)
  BY DEF WithCtx
<1> HIDE DEF y
<1>4. Shape(x4) /\ SameCheck(x4, y) /\ x4.sigBusy /\ x4.decrypt = dc
  <2> HIDE DEF y, sc, vf, dc
  <2>1. Shape(x1) /\ SameCheck(x1, y) /\ x1.sigBusy
    BY <1>1 DEF Shape, SameCheck
  <2> HIDE DEF x1
  <2>2. Shape(x2) /\ SameCheck(x2, x1) /\ x2.sigBusy = x1.sigBusy
    BY <2>1 DEF Shape, SameCheck
  <2> HIDE DEF x2
  <2>3. Shape(x3) /\ SameCheck(x3, x2) /\ x3.sigBusy = x2.sigBusy
    BY <2>2 DEF Shape, SameCheck
  <2> HIDE DEF x3
  <2>4. Shape(x4) /\ SameCheck(x4, x3) /\ x4.sigBusy = x3.sigBusy /\ x4.decrypt = dc
    BY <2>3 DEF Shape, SameCheck
  <2> QED BY <2>1, <2>2, <2>3, <2>4 DEF SameCheck
<1> HIDE DEF x4
<1>6. v = WithJobs(WithCtx(w, c, x4), J)
  <2> DEFINE z == [w EXCEPT !.ctx[c].sigBusy = TRUE, !.ctx[c].sigCached = sc, !.ctx[c].verify = vf,
                            !.ctx[c].decrypt = dc]
  <2>1. v = [z EXCEPT !.jobs = J]
    BY <1>2
  <2> HIDE DEF z
  <2>2. z = WithCtx(w, c, x4)
    BY <1>3 DEF z
  <2> QED BY <2>1, <2>2 DEF WithJobs
<1>7. /\ IsWorld(WithCtx(w, c, x4)) /\ WithCtx(w, c, x4).ctx[c] = x4
      /\ \A d \in RP!Contexts \ {c} : WithCtx(w, c, x4).ctx[d] = w.ctx[d]
      /\ WithCtx(w, c, x4).checks = w.checks
  BY <1>4, CtxReplaced
<1>9. /\ IsWorld(v) /\ v.ctx[c] = x4 /\ v.checks = w.checks /\ v.jobs = J
      /\ \A d \in RP!Contexts \ {c} : v.ctx[d] = w.ctx[d]
  BY <1>6, <1>7, SetsReplaced
<1>10. SameCheck(v.ctx[c], w.ctx[c]) /\ v.ctx[c].sigBusy /\ v.ctx[c].decrypt = dc
  BY <1>4, <1>9 DEF y
<1>11. dc = IF kind = "decrypt" THEN NewJob(w, c, kind).id ELSE w.ctx[c].decrypt
  BY <1>1 DEF dc, i, y
<1> QED BY <1>9, <1>10, <1>11 DEF J

WorldOK == IsWorld(RP!World)

\* What a message that is put under the uid of the pane leaves, for the DKIM check ...
Shown(v, u, m, octets, cached) ==
  /\ v.ctx["window"] = ctx["window"]
  /\ v.ctx["pane"].uid = u /\ v.ctx["pane"].shown = m /\ v.ctx["pane"].octets = octets
  /\ v.ctx["pane"].turn = ctx["pane"].turn + 1
  /\ \/ v.checks = checks /\ ~v.ctx["pane"].checking /\ ~v.ctx["pane"].cached
     \/ /\ \E k : /\ v.checks = checks \cup {k} /\ k.ctx = "pane" /\ k.of = m
                  /\ k.octets = octets /\ k.turn = ctx["pane"].turn + 1
        /\ v.ctx["pane"].checking /\ v.ctx["pane"].cached = cached
\* ... and for gpg.
Handed(x, js) ==
  \/ ~x.sigBusy /\ x.decrypt = 0
  \/ x.decrypt = 0 /\ \E j \in js : j.kind = "verify" /\ "pane" \in j.waiting
  \/ \E j \in js : j.kind = "decrypt" /\ j.id = x.decrypt /\ "pane" \in j.waiting

LEMMA Presents ==
    ASSUME WorldOK, JobsOK(readingJobs), NEW u, NEW m, NEW octets, NEW cached \in BOOLEAN
    PROVE  LET v == RP!Presented(u, m, octets, cached) IN
           /\ IsWorld(v) /\ JobsOK(v.jobs) /\ Shown(v, u, m, octets, cached)
           /\ Handed(v.ctx["pane"], v.jobs)
<1> DEFINE y  == ctx["pane"]
           x1 == [y EXCEPT !.uid = u]
           x2 == [x1 EXCEPT !.shown = m]
           x3 == [x2 EXCEPT !.turn = y.turn + 1]
           x4 == [x3 EXCEPT !.octets = octets]
           x5 == [x4 EXCEPT !.sigBusy = FALSE]
           x6 == [x5 EXCEPT !.decrypt = 0]
           w  == WithCtx(RP!World, "pane", x6)
           k  == CASE Kind[m] = "signed"    -> RP!StartJob(w, "pane", "verify", cached)
                   [] Kind[m] = "encrypted" -> RP!StartJob(w, "pane", "decrypt", FALSE)
                   [] OTHER -> w
           v  == RP!Presented(u, m, octets, cached)
<1>1. RP!World.ctx = ctx /\ RP!World.checks = checks /\ RP!World.jobs = readingJobs /\ "pane" \in RP!Contexts /\ "window" \in RP!Contexts
  BY DEF RP!World, RP!Contexts
<1>2. Shape(y) /\ IsWorld(RP!World)
  BY <1>1 DEF WorldOK, IsWorld
<1>3. [RP!World EXCEPT !.ctx["pane"] = [y EXCEPT !.uid = u, !.shown = m, !.turn = @ + 1, !.octets = octets,
                                              !.sigBusy = FALSE, !.decrypt = 0]] = w
  <2>1. [y EXCEPT !.uid = u, !.shown = m, !.turn = @ + 1, !.octets = octets, !.sigBusy = FALSE, !.decrypt = 0] = x6
    <3> HIDE DEF y
    <3> QED BY <1>2 DEF Shape
  <2> HIDE DEF x6, y
  <2> QED BY <2>1 DEF WithCtx
<1>4. v = RP!StartDkim(k, "pane", cached)
  BY <1>3 DEF RP!Presented
<1>5. /\ Shape(x6) /\ x6.uid = u /\ x6.shown = m /\ x6.turn = y.turn + 1 /\ x6.octets = octets
      /\ ~x6.sigBusy /\ x6.decrypt = 0
  <2> HIDE DEF y
  <2>1. Shape(x1) /\ x1.uid = u /\ x1.turn = y.turn /\ y.turn \in Nat
    BY <1>2 DEF Shape
  <2> HIDE DEF x1
  <2>2. Shape(x2) /\ x2.uid = u /\ x2.shown = m /\ x2.turn = y.turn
    BY <2>1 DEF Shape
  <2> HIDE DEF x2
  <2> DEFINE n == y.turn + 1
  <2>3. n \in Nat
    BY <2>1
  <2> HIDE DEF n
  <2>4. /\ Shape([x2 EXCEPT !.turn = n]) /\ [x2 EXCEPT !.turn = n].uid = u /\ [x2 EXCEPT !.turn = n].shown = m
        /\ [x2 EXCEPT !.turn = n].turn = n
    BY <2>2, <2>3 DEF Shape
  <2>5. Shape(x3) /\ x3.uid = u /\ x3.shown = m /\ x3.turn = y.turn + 1
    BY <2>4 DEF n
  <2> HIDE DEF x3
  <2>6. Shape(x4) /\ x4.uid = u /\ x4.shown = m /\ x4.turn = x3.turn /\ x4.octets = octets
    BY <2>5 DEF Shape
  <2> HIDE DEF x4
  <2>7. /\ Shape(x5) /\ x5.uid = u /\ x5.shown = m /\ x5.turn = x4.turn /\ x5.octets = octets
        /\ ~x5.sigBusy
    BY <2>6 DEF Shape
  <2> HIDE DEF x5
  <2>8. /\ Shape(x6) /\ x6.uid = u /\ x6.shown = m /\ x6.turn = x5.turn /\ x6.octets = octets
        /\ ~x6.sigBusy /\ x6.decrypt = 0
    BY <2>7 DEF Shape
  <2> QED BY <2>5, <2>6, <2>7, <2>8
<1> HIDE DEF x6, v
<1>6. /\ IsWorld(w) /\ w.ctx["pane"] = x6 /\ w.ctx["window"] = ctx["window"]
      /\ w.checks = checks /\ w.jobs = readingJobs
  <2>1. "window" \in RP!Contexts \ {"pane"}
    BY <1>1
  <2> QED BY <1>1, <1>2, <1>5, <2>1, CtxReplaced
<1> HIDE DEF w
<1>7. /\ IsWorld(k) /\ JobsOK(k.jobs) /\ k.checks = checks /\ k.ctx["window"] = ctx["window"] /\ SameCheck(k.ctx["pane"], x6)
      /\ Handed(k.ctx["pane"], k.jobs)
  <2>1. ASSUME NEW kind, NEW c0, kind \in {"verify", "decrypt"}, k = RP!StartJob(w, "pane", kind, c0)
        PROVE  /\ IsWorld(k) /\ JobsOK(k.jobs) /\ k.checks = checks /\ k.ctx["window"] = ctx["window"]
               /\ SameCheck(k.ctx["pane"], x6) /\ Handed(k.ctx["pane"], k.jobs)
    <3> HIDE DEF k
    <3>1. /\ IsWorld(k) /\ k.checks = w.checks /\ k.jobs = w.jobs \cup {NewJob(w, "pane", kind)}
          /\ k.ctx["window"] = w.ctx["window"]
          /\ SameCheck(k.ctx["pane"], w.ctx["pane"]) /\ k.ctx["pane"].sigBusy
          /\ k.ctx["pane"].decrypt = IF kind = "decrypt" THEN NewJob(w, "pane", kind).id ELSE w.ctx["pane"].decrypt
      <4>1. IsWorld(w) /\ "pane" \in RP!Contexts /\ "window" \in RP!Contexts \ {"pane"}
        BY <1>1, <1>6
      <4> DEFINE q == RP!StartJob(w, "pane", kind, c0)
      <4>2. IsWorld(q) /\ q.checks = w.checks /\ q.jobs = w.jobs \cup {NewJob(w, "pane", kind)}
        BY <4>1, Engages
      <4>3. \A d \in RP!Contexts \ {"pane"} : q.ctx[d] = w.ctx[d]
        BY <4>1, Engages
      <4>4. SameCheck(q.ctx["pane"], w.ctx["pane"]) /\ q.ctx["pane"].sigBusy
        BY <4>1, Engages
      <4>5. q.ctx["pane"].decrypt = IF kind = "decrypt" THEN NewJob(w, "pane", kind).id ELSE w.ctx["pane"].decrypt
        BY <4>1, Engages
      <4>6. k = q
        BY <2>1
      <4> HIDE DEF q
      <4> QED BY <4>1, <4>2, <4>3, <4>4, <4>5, <4>6
    <3>2. NewJob(w, "pane", kind).kind = kind /\ NewJob(w, "pane", kind).waiting = {"pane"}
      BY DEF NewJob
    <3>3. NewJob(w, "pane", kind) \in k.jobs
      BY <3>1
    <3>4. Handed(k.ctx["pane"], k.jobs)
      <4>1. CASE kind = "verify"
        BY <1>5, <1>6, <3>1, <3>2, <3>3, <4>1 DEF Handed
      <4>2. CASE kind = "decrypt"
        BY <3>1, <3>2, <3>3, <4>2 DEF Handed
      <4> QED BY <2>1, <4>1, <4>2
    <3>5. JobsOK(k.jobs)
      <4>1. JobsOK({NewJob(w, "pane", kind)})
        BY <1>1 DEF JobsOK, NewJob
      <4> HIDE DEF k
      <4> QED BY <1>6, <3>1, <4>1 DEF JobsOK
    <3> QED BY <1>6, <3>1, <3>4, <3>5
  <2>2. CASE Kind[m] = "signed"
    <3>1. k = RP!StartJob(w, "pane", "verify", cached)
      BY <2>2
    <3> HIDE DEF k
    <3> QED BY <2>1, <3>1
  <2>3. CASE Kind[m] = "encrypted"
    <3>1. k = RP!StartJob(w, "pane", "decrypt", FALSE)
      BY <2>3
    <3> DEFINE no == FALSE
    <3>2. k = RP!StartJob(w, "pane", "decrypt", no)
      BY <3>1
    <3> HIDE DEF k, no
    <3> QED BY <2>1, <3>2
  <2>4. CASE Kind[m] # "signed" /\ Kind[m] # "encrypted"
    <3>1. k = w
      BY <2>4
    <3> HIDE DEF k
    <3> QED BY <1>5, <1>6, <3>1 DEF SameCheck, Handed
  <2> QED BY <2>2, <2>3, <2>4
<1> HIDE DEF k
<1>8. /\ IsWorld(v) /\ v.jobs = k.jobs /\ v.ctx["window"] = k.ctx["window"]
      /\ SameJob(v.ctx["pane"], k.ctx["pane"])
      /\ v.ctx["pane"].turn = k.ctx["pane"].turn /\ v.ctx["pane"].octets = k.ctx["pane"].octets
      /\ \/ v.checks = k.checks /\ ~v.ctx["pane"].checking /\ ~v.ctx["pane"].cached
         \/ /\ v.checks = k.checks \cup {NewCheck(k, "pane")}
            /\ v.ctx["pane"].checking /\ v.ctx["pane"].cached = cached
  <2>1. "pane" \in RP!Contexts /\ "window" \in RP!Contexts \ {"pane"} /\ IsWorld(k)
    BY <1>1, <1>7
  <2> DEFINE q == RP!StartDkim(k, "pane", cached)
  <2>2. /\ IsWorld(q) /\ q.jobs = k.jobs /\ SameJob(q.ctx["pane"], k.ctx["pane"])
        /\ \A d \in RP!Contexts \ {"pane"} : q.ctx[d] = k.ctx[d]
        /\ q.ctx["pane"].turn = k.ctx["pane"].turn /\ q.ctx["pane"].octets = k.ctx["pane"].octets
    BY <2>1, Begins
  <2>3. \/ q.checks = k.checks /\ ~q.ctx["pane"].checking /\ ~q.ctx["pane"].cached
        \/ /\ q.checks = k.checks \cup {NewCheck(k, "pane")}
           /\ q.ctx["pane"].checking /\ q.ctx["pane"].cached = cached
    BY <2>1, Begins
  <2>4. v = q
    BY <1>4
  <2> HIDE DEF q
  <2> QED BY <2>1, <2>2, <2>3, <2>4
<1>9. /\ NewCheck(k, "pane").ctx = "pane" /\ NewCheck(k, "pane").of = k.ctx["pane"].shown
      /\ NewCheck(k, "pane").octets = k.ctx["pane"].octets /\ NewCheck(k, "pane").turn = k.ctx["pane"].turn
  BY DEF NewCheck
<1>10. Shown(v, u, m, octets, cached)
  BY <1>5, <1>7, <1>8, <1>9 DEF Shown, SameCheck, SameJob
<1>11. Handed(v.ctx["pane"], v.jobs)
  BY <1>7, <1>8 DEF Handed, SameJob
<1> QED BY <1>7, <1>8, <1>10, <1>11 DEF v

LEMMA Detaches ==
    ASSUME NEW w, IsWorld(w), JobsOK(w.jobs), NEW cached \in BOOLEAN
    PROVE  LET v == RP!Detached(w, cached)
               y == w.ctx["pane"]
               z == v.ctx["window"] IN
           /\ IsWorld(v) /\ v.ctx["pane"] = y /\ JobsOK(v.jobs)
           /\ \A j \in w.jobs : \E k \in v.jobs : k.id = j.id /\ k.kind = j.kind /\ j.waiting \subseteq k.waiting
           /\ z.uid = y.uid /\ z.shown = y.shown /\ z.turn = y.turn /\ z.octets = y.octets
           /\ \/ v.checks = w.checks /\ ~z.checking
              \/ /\ y.checking /\ z.checking /\ z.cached = cached
                 /\ \E k : /\ v.checks = w.checks \cup {k} /\ k.ctx = "window" /\ k.of = y.shown
                          /\ k.octets = y.octets /\ k.turn = y.turn
<1> DEFINE y  == w.ctx["pane"]
           his == {y.verify, y.decrypt}
           F(j) == [j EXCEPT !.waiting = j.waiting \cup (IF j.id \in his THEN {"window"} ELSE {})]
           J  == {F(j) : j \in w.jobs}
           x1 == [y EXCEPT !.tries = 0]
           x2 == [x1 EXCEPT !.checking = FALSE]
           x  == WithJobs(WithCtx(w, "window", x2), J)
           v  == RP!Detached(w, cached)
<1>1. "pane" \in RP!Contexts \ {"window"} /\ "window" \in RP!Contexts /\ "pane" \in RP!Contexts
  BY DEF RP!Contexts
<1>2. Shape(y)
  BY <1>1 DEF IsWorld
<1>3. v = IF y.checking THEN RP!StartDkim(x, "window", cached) ELSE x
  <2>1. [w EXCEPT !.ctx["window"] = [w.ctx["pane"] EXCEPT !.tries = 0, !.checking = FALSE], !.jobs = J] = x
    <3>1. [y EXCEPT !.tries = 0, !.checking = FALSE] = x2
      <4> HIDE DEF y
      <4> QED OBVIOUS
    <3> HIDE DEF x2, J
    <3>2. [w EXCEPT !.ctx["window"] = x2, !.jobs = J] = [WithCtx(w, "window", x2) EXCEPT !.jobs = J]
      BY DEF WithCtx
    <3> QED BY <3>1, <3>2 DEF WithJobs
  <2> QED BY <2>1 DEF RP!Detached
<1>4. \A j \in w.jobs : /\ F(j).id = j.id /\ F(j).kind = j.kind /\ j.waiting \subseteq F(j).waiting
                       /\ F(j) \in [id : {F(j).id}, kind : {F(j).kind}, of : {F(j).of}, octets : {F(j).octets},
                                   waiting : SUBSET RP!Contexts]
  <2> TAKE j \in w.jobs
  <2> DEFINE e == j.waiting \cup (IF j.id \in his THEN {"window"} ELSE {})
  <2>1. j \in [id : {j.id}, kind : {j.kind}, of : {j.of}, octets : {j.octets}, waiting : SUBSET RP!Contexts]
    BY DEF JobsOK
  <2>2. e \in SUBSET RP!Contexts /\ j.waiting \subseteq e
    BY <1>1, <2>1
  <2> HIDE DEF e
  <2>3. /\ [j EXCEPT !.waiting = e].id = j.id /\ [j EXCEPT !.waiting = e].kind = j.kind
        /\ [j EXCEPT !.waiting = e].of = j.of /\ [j EXCEPT !.waiting = e].octets = j.octets
        /\ [j EXCEPT !.waiting = e].waiting = e
        /\ [j EXCEPT !.waiting = e] \in [id : {j.id}, kind : {j.kind}, of : {j.of}, octets : {j.octets},
                                         waiting : SUBSET RP!Contexts]
    BY <2>1, <2>2
  <2> QED BY <2>2, <2>3 DEF e
<1>5. JobsOK(J) /\ \A j \in w.jobs : \E k \in J : k.id = j.id /\ k.kind = j.kind /\ j.waiting \subseteq k.waiting
  <2> HIDE DEF F
  <2> QED BY <1>4 DEF JobsOK
<1>6. /\ Shape(x2) /\ x2.uid = y.uid /\ x2.shown = y.shown /\ x2.turn = y.turn /\ x2.octets = y.octets
      /\ ~x2.checking
  <2> HIDE DEF y
  <2>1. /\ Shape(x1) /\ x1.uid = y.uid /\ x1.shown = y.shown /\ x1.turn = y.turn /\ x1.octets = y.octets
    BY <1>2 DEF Shape
  <2> HIDE DEF x1
  <2> QED BY <2>1 DEF Shape
<1> HIDE DEF x2, J, F, v
<1>7. /\ IsWorld(x) /\ x.ctx["window"] = x2 /\ x.ctx["pane"] = y /\ x.checks = w.checks /\ x.jobs = J
  BY <1>1, <1>6, CtxReplaced, SetsReplaced
<1> HIDE DEF x
<1>8. CASE ~y.checking
  <2>1. v = x
    BY <1>3, <1>8
  <2> QED BY <1>5, <1>6, <1>7, <2>1 DEF v, y
<1>9. CASE y.checking
  <2> DEFINE q == RP!StartDkim(x, "window", cached)
             n == NewCheck(x, "window")
  <2>1. v = q
    BY <1>3, <1>9
  <2>2. /\ IsWorld(q) /\ q.jobs = J /\ q.ctx["pane"] = y /\ SameJob(q.ctx["window"], x2)
        /\ q.ctx["window"].turn = x2.turn /\ q.ctx["window"].octets = x2.octets
    BY <1>1, <1>7, Begins
  <2>3. \/ q.checks = w.checks /\ ~q.ctx["window"].checking
        \/ /\ q.checks = w.checks \cup {n}
           /\ q.ctx["window"].checking /\ q.ctx["window"].cached = cached
    BY <1>1, <1>7, Begins
  <2>4. n.ctx = "window" /\ n.of = y.shown /\ n.octets = y.octets /\ n.turn = y.turn
    BY <1>6, <1>7 DEF NewCheck
  <2> HIDE DEF q, n
  <2> QED BY <1>5, <1>6, <1>9, <2>1, <2>2, <2>3, <2>4 DEF SameJob, v, y
<1> QED BY <1>8, <1>9

-----------------------------------------------------------------------------
(* What a world keeps: what each badge waits for, whose octets are checked.  *)

Settled(x) == x.shown # 0 /\ x.shown = x.uid

\* A badge of c that says "checking" is being checked.
EvidenceAt(w, c, R, H) ==
  Settled(w.ctx[c]) /\ w.ctx[c].checking =>
    \/ \E k \in w.checks : k.ctx = c
    \/ \E t \in R : t.ctx = c /\ t.uid = w.ctx[c].uid
    \/ \E h \in H : h.ctx = c /\ h.uid = w.ctx[c].uid /\ h.reason = "dkim"
Evidence(w, R, H) == \A c \in RP!Contexts : EvidenceAt(w, c, R, H)
\* Nothing is under way for a presentation to come.
Turns(w, R) == \A k \in w.checks \cup R : k.ctx \in RP!Contexts /\ k.turn \in Nat /\ k.turn <= w.ctx[k.ctx].turn
\* What is asked for the presentation on screen is about its message, and of
\* octets that are known for what they are.
Own(w, k) == k.turn = w.ctx[k.ctx].turn /\ w.ctx[k.ctx].shown # 0
CheckOK(w, k) == Own(w, k) => /\ k.of = w.ctx[k.ctx].shown
                              /\ ~w.ctx[k.ctx].cached => k.octets # "stale"
OctetsOK(w, k) == Own(w, k) /\ ~w.ctx[k.ctx].cached => w.ctx[k.ctx].octets # "stale"
BadgeOK(x) == x.shown # 0 /\ x.checking /\ ~x.cached => x.octets # "stale"
Origin(w, R) == /\ \A k \in w.checks : CheckOK(w, k)
                /\ \A k \in w.checks \cup R : OctetsOK(w, k)
                /\ \A c \in RP!Contexts : BadgeOK(w.ctx[c])
Unopened(w, R, H) == w.ctx["window"].shown = 0 /\ \A k \in w.checks \cup R \cup H : k.ctx = "pane"
CheckInv(w, R, H, o, s) == /\ Evidence(w, R, H) /\ Turns(w, R)
                           /\ ~o => Unopened(w, R, H)
                           /\ ~s => Origin(w, R)

\* A message put under the uid of the pane.
LEMMA ShownKeeps ==
    ASSUME WorldOK, NEW R, NEW H, NEW o, NEW s, CheckInv(RP!World, R, H, o, s),
           NEW u, NEW m, NEW octets, NEW cached \in BOOLEAN, ~cached => octets # "stale",
           NEW v, IsWorld(v), Shown(v, u, m, octets, cached)
    PROVE  CheckInv(v, R, H, o, s)
<1> DEFINE p == v.ctx["pane"]
<1>1. /\ RP!World.ctx = ctx /\ RP!World.checks = checks /\ RP!Contexts = {"pane", "window"}
      /\ v.ctx["window"] = ctx["window"] /\ p.turn = ctx["pane"].turn + 1
      /\ ctx["pane"].turn \in Nat /\ ctx["window"].turn \in Nat
  BY DEF RP!World, RP!Contexts, Shown, WorldOK, IsWorld, Shape
<1>2. PICK K : /\ v.checks = checks \cup K
               /\ \A k \in K : /\ k.ctx = "pane" /\ k.of = m /\ k.octets = octets /\ k.turn = p.turn
                                /\ p.checking /\ p.cached = cached
               /\ K = {} => ~p.checking
  <2>1. CASE v.checks = checks /\ ~p.checking
    <3> DEFINE none == {}
    <3>1. v.checks = checks \cup none /\ \A k \in none : FALSE
      BY <2>1
    <3> HIDE DEF none
    <3> QED BY <2>1, <3>1
  <2>2. ASSUME NEW k, v.checks = checks \cup {k}, k.ctx = "pane", k.of = m, k.octets = octets,
               k.turn = ctx["pane"].turn + 1, p.checking, p.cached = cached
        PROVE  \E K : /\ v.checks = checks \cup K
                      /\ \A l \in K : /\ l.ctx = "pane" /\ l.of = m /\ l.octets = octets /\ l.turn = p.turn
                                       /\ p.checking /\ p.cached = cached
                      /\ K = {} => ~p.checking
    <3> WITNESS {k}
    <3> QED BY <1>1, <2>2
  <2> QED BY <2>1, <2>2 DEF Shown
<1>3. Evidence(v, R, H)
  <2>1. EvidenceAt(v, "window", R, H)
    BY <1>1, <1>2 DEF CheckInv, Evidence, EvidenceAt
  <2>2. EvidenceAt(v, "pane", R, H)
    BY <1>2 DEF EvidenceAt
  <2> QED BY <1>1, <2>1, <2>2 DEF Evidence
<1>4. \A k \in checks \cup R : /\ k.ctx \in RP!Contexts /\ k.turn \in Nat /\ k.turn <= ctx[k.ctx].turn
                               /\ k.ctx = "pane" => k.turn < p.turn
  BY <1>1 DEF CheckInv, Turns
<1>5. Turns(v, R)
  <2>1. ASSUME NEW k \in checks \cup R
        PROVE  k.ctx \in RP!Contexts /\ k.turn \in Nat /\ k.turn <= v.ctx[k.ctx].turn
    <3>1. CASE k.ctx = "pane"
      BY <1>1, <1>4, <3>1
    <3>2. CASE k.ctx = "window"
      BY <1>1, <1>4, <3>2
    <3> QED BY <1>1, <1>4, <3>1, <3>2
  <2>2. ASSUME NEW k \in K
        PROVE  k.ctx \in RP!Contexts /\ k.turn \in Nat /\ k.turn <= v.ctx[k.ctx].turn
    <3>1. k.ctx = "pane" /\ k.turn = p.turn /\ p.turn \in Nat
      BY <1>1, <1>2
    <3> QED BY <1>1, <3>1
  <2> QED BY <1>2, <2>1, <2>2 DEF Turns
<1>6. ASSUME ~o PROVE Unopened(v, R, H)
  BY <1>1, <1>2, <1>6 DEF CheckInv, Unopened
<1>7. ASSUME ~s PROVE Origin(v, R)
  <2>1. Origin(RP!World, R)
    BY <1>7 DEF CheckInv
  <2>2. ASSUME NEW k \in checks \cup R, Own(v, k)
        PROVE  k.ctx = "window" /\ v.ctx[k.ctx] = ctx[k.ctx] /\ Own(RP!World, k)
    <3>1. k.ctx # "pane"
      <4>1. CASE k.ctx = "pane"
        <5>1. k.turn = p.turn /\ k.turn < p.turn /\ k.turn \in Nat
          BY <1>4, <2>2, <4>1 DEF Own
        <5> QED BY <5>1
      <4> QED BY <4>1
    <3>2. k.ctx = "window"
      BY <1>1, <1>4, <3>1
    <3> QED BY <1>1, <2>2, <3>2 DEF Own
  <2>3. \A k \in v.checks : CheckOK(v, k)
    <3>1. ASSUME NEW k \in checks PROVE CheckOK(v, k)
      BY <1>1, <2>1, <2>2 DEF Origin, CheckOK
    <3>2. ASSUME NEW k \in K PROVE CheckOK(v, k)
      BY <1>2 DEF CheckOK, Shown
    <3> QED BY <1>2, <3>1, <3>2
  <2>4. p.octets = octets
    BY DEF Shown
  <2>5. \A k \in v.checks \cup R : OctetsOK(v, k)
    <3>1. ASSUME NEW k \in checks \cup R PROVE OctetsOK(v, k)
      BY <1>1, <2>1, <2>2 DEF Origin, OctetsOK
    <3>2. ASSUME NEW k \in K PROVE OctetsOK(v, k)
      BY <1>2, <2>4 DEF OctetsOK
    <3> QED BY <1>2, <3>1, <3>2
  <2>6. BadgeOK(v.ctx["window"])
    BY <1>1, <2>1 DEF Origin
  <2>7. BadgeOK(p)
    <3>1. CASE K = {}
      BY <1>2, <3>1 DEF BadgeOK
    <3>2. CASE K # {}
      BY <1>2, <2>4, <3>2 DEF BadgeOK
    <3> QED BY <3>1, <3>2
  <2> QED BY <1>1, <2>3, <2>5, <2>6, <2>7 DEF Origin
<1> QED BY <1>3, <1>5, <1>6, <1>7 DEF CheckInv

\* A message detached into the window.
LEMMA DetachedKeeps ==
    ASSUME NEW w, IsWorld(w), JobsOK(w.jobs), NEW R, NEW H, NEW o, NEW s, NEW p, NEW cached \in BOOLEAN,
           Evidence(w, R, H), Turns(w, R), Unopened(w, R, H), ~s => Origin(w, R), o,
           p = w.ctx["pane"], p.shown # 0, ~s /\ p.checking /\ ~cached => p.octets # "stale"
    PROVE  CheckInv(RP!Detached(w, cached), R, H, o, s)
<1> DEFINE v == RP!Detached(w, cached)
           z == v.ctx["window"]
<1>1. /\ IsWorld(v) /\ v.ctx["pane"] = p
      /\ z.uid = p.uid /\ z.shown = p.shown /\ z.turn = p.turn /\ z.octets = p.octets
      /\ \/ v.checks = w.checks /\ ~z.checking
         \/ /\ p.checking /\ z.checking /\ z.cached = cached
            /\ \E k : /\ v.checks = w.checks \cup {k} /\ k.ctx = "window" /\ k.of = p.shown
                     /\ k.octets = p.octets /\ k.turn = p.turn
  BY Detaches
<1> HIDE DEF v
<1>2. /\ RP!Contexts = {"pane", "window"} /\ p.turn \in Nat
  BY <1>1 DEF RP!Contexts, IsWorld, Shape
<1>3. PICK K : /\ v.checks = w.checks \cup K
               /\ \A k \in K : /\ k.ctx = "window" /\ k.of = p.shown /\ k.octets = p.octets /\ k.turn = p.turn
                                /\ p.checking /\ z.cached = cached
               /\ K = {} => ~z.checking
               /\ K # {} => p.checking /\ z.cached = cached
  <2>1. CASE v.checks = w.checks /\ ~z.checking
    <3> DEFINE none == {}
    <3>1. v.checks = w.checks \cup none /\ \A k \in none : FALSE
      BY <2>1
    <3>2. none = {}
      OBVIOUS
    <3> HIDE DEF none
    <3> QED BY <2>1, <3>1, <3>2
  <2>2. ASSUME NEW k, v.checks = w.checks \cup {k}, k.ctx = "window", k.of = p.shown, k.octets = p.octets,
               k.turn = p.turn, p.checking, z.cached = cached
        PROVE  \E L : /\ v.checks = w.checks \cup L
                      /\ \A l \in L : /\ l.ctx = "window" /\ l.of = p.shown /\ l.octets = p.octets
                                       /\ l.turn = p.turn /\ p.checking /\ z.cached = cached
                      /\ L = {} => ~z.checking
                      /\ L # {} => p.checking /\ z.cached = cached
    <3> WITNESS {k}
    <3> QED BY <2>2
  <2> QED BY <1>1, <2>1, <2>2
<1>4. Evidence(v, R, H)
  <2>1. EvidenceAt(v, "pane", R, H)
    BY <1>1, <1>2, <1>3 DEF Evidence, EvidenceAt
  <2>2. EvidenceAt(v, "window", R, H)
    BY <1>3 DEF EvidenceAt
  <2> QED BY <1>2, <2>1, <2>2 DEF Evidence
<1>5. \A k \in w.checks \cup R : k.ctx = "pane" /\ k.turn \in Nat /\ k.turn <= p.turn
  BY DEF Unopened, Turns
<1>6. Turns(v, R)
  <2>1. \A k \in K : k.turn \in Nat /\ k.turn <= z.turn
    BY <1>1, <1>2, <1>3
  <2>2. \A k \in v.checks \cup R : k \in w.checks \cup R \/ k \in K
    BY <1>3
  <2>3. \A k \in K : k.ctx = "window"
    BY <1>3
  <2> QED BY <1>1, <1>2, <1>5, <2>1, <2>2, <2>3 DEF Turns
<1>7. ASSUME ~s PROVE Origin(v, R)
  <2>1. Origin(w, R)
    BY <1>7
  <2>2. \A k \in v.checks : CheckOK(v, k)
    <3>1. ASSUME NEW k \in w.checks PROVE CheckOK(v, k)
      BY <1>1, <1>5, <2>1 DEF Origin, CheckOK, Own
    <3>2. ASSUME NEW k \in K PROVE CheckOK(v, k)
      BY <1>1, <1>3, <1>7 DEF CheckOK
    <3> QED BY <1>3, <3>1, <3>2
  <2>3. \A k \in v.checks \cup R : OctetsOK(v, k)
    <3>1. ASSUME NEW k \in w.checks \cup R PROVE OctetsOK(v, k)
      BY <1>1, <1>5, <2>1 DEF Origin, OctetsOK, Own
    <3>2. ASSUME NEW k \in K PROVE OctetsOK(v, k)
      BY <1>1, <1>3, <1>7 DEF OctetsOK
    <3> QED BY <1>3, <3>1, <3>2
  <2>4. BadgeOK(p)
    BY <1>2, <2>1 DEF Origin
  <2>5. BadgeOK(z)
    <3>1. CASE K = {}
      BY <1>3, <3>1 DEF BadgeOK
    <3>2. CASE K # {}
      BY <1>1, <1>3, <1>7, <3>2 DEF BadgeOK
    <3> QED BY <3>1, <3>2
  <2> QED BY <1>1, <1>2, <2>2, <2>3, <2>4, <2>5 DEF Origin
<1> QED BY <1>4, <1>6, <1>7 DEF CheckInv, v

\* A check submitted for what is on screen.
LEMMA SubmitKeeps ==
    ASSUME NEW w, IsWorld(w), NEW c \in RP!Contexts, NEW R, NEW H, NEW o, NEW s,
           \A d \in RP!Contexts \ {c} : EvidenceAt(w, d, R, H),
           Turns(w, R), ~o => c = "pane" /\ Unopened(w, R, H),
           ~s => Origin(w, R) /\ (w.ctx[c].shown # 0 /\ ~w.ctx[c].cached => w.ctx[c].octets # "stale")
    PROVE  CheckInv(RP!SubmitDkim(w, c), R, H, o, s)
<1> DEFINE v == RP!SubmitDkim(w, c)
           n == NewCheck(w, c)
           x == w.ctx[c]
           y == v.ctx[c]
<1>1. /\ IsWorld(v) /\ v.checks = w.checks \cup {n}
      /\ \A d \in RP!Contexts \ {c} : v.ctx[d] = w.ctx[d]
      /\ y = [x EXCEPT !.checking = TRUE]
  BY Submits
<1>2. Shape(x) /\ n.ctx = c /\ n.of = x.shown /\ n.octets = x.octets /\ n.turn = x.turn
  BY DEF IsWorld, NewCheck
<1> HIDE DEF v, n, x, y
<1>3. y.uid = x.uid /\ y.shown = x.shown /\ y.turn = x.turn /\ y.octets = x.octets /\ y.cached = x.cached /\ y.turn \in Nat
  BY <1>1, <1>2, Checking DEF SameJob, Shape
<1>4. \A d \in RP!Contexts : /\ v.ctx[d].uid = w.ctx[d].uid /\ v.ctx[d].shown = w.ctx[d].shown
                             /\ v.ctx[d].turn = w.ctx[d].turn /\ v.ctx[d].octets = w.ctx[d].octets
                             /\ v.ctx[d].cached = w.ctx[d].cached
  BY <1>1, <1>3 DEF x, y
<1>5. Evidence(v, R, H)
  <2>1. EvidenceAt(v, c, R, H)
    BY <1>1, <1>2 DEF EvidenceAt
  <2>2. ASSUME NEW d \in RP!Contexts \ {c} PROVE EvidenceAt(v, d, R, H)
    BY <1>1, <2>2 DEF EvidenceAt
  <2> QED BY <2>1, <2>2 DEF Evidence
<1>6. Turns(v, R)
  <2>1. ASSUME NEW k \in w.checks \cup R
        PROVE  k.ctx \in RP!Contexts /\ k.turn \in Nat /\ k.turn <= v.ctx[k.ctx].turn
    BY <1>4 DEF Turns
  <2>2. n.ctx \in RP!Contexts /\ n.turn \in Nat /\ n.turn <= v.ctx[n.ctx].turn
    BY <1>2, <1>3 DEF y
  <2> QED BY <1>1, <2>1, <2>2 DEF Turns
<1>7. ASSUME ~o PROVE Unopened(v, R, H)
  BY <1>1, <1>2, <1>4, <1>7 DEF Unopened, RP!Contexts
<1>8. ASSUME ~s PROVE Origin(v, R)
  <2>1. Origin(w, R) /\ \A k \in w.checks \cup R : k.ctx \in RP!Contexts
    BY <1>8 DEF Turns
  <2>2. \A k \in v.checks : CheckOK(v, k)
    <3>1. ASSUME NEW k \in w.checks PROVE CheckOK(v, k)
      BY <1>4, <2>1 DEF Origin, CheckOK, Own
    <3>2. CheckOK(v, n)
      BY <1>2, <1>3, <1>8 DEF CheckOK, Own, x, y
    <3> QED BY <1>1, <3>1, <3>2
  <2>3. \A k \in v.checks \cup R : OctetsOK(v, k)
    <3>1. ASSUME NEW k \in w.checks \cup R PROVE OctetsOK(v, k)
      BY <1>4, <2>1 DEF Origin, OctetsOK, Own
    <3>2. OctetsOK(v, n)
      BY <1>2, <1>3, <1>8 DEF OctetsOK, Own, x, y
    <3> QED BY <1>1, <3>1, <3>2
  <2>4. ASSUME NEW d \in RP!Contexts PROVE BadgeOK(v.ctx[d])
    <3>1. CASE d = c
      BY <1>3, <1>8, <3>1 DEF BadgeOK, x, y
    <3>2. CASE d # c
      BY <1>1, <2>1, <3>2 DEF Origin
    <3> QED BY <3>1, <3>2
  <2> QED BY <2>2, <2>3, <2>4 DEF Origin
<1> QED BY <1>5, <1>6, <1>7, <1>8 DEF CheckInv, v

\* A context that shows nothing new: it goes on, it is cleared, or its row moves
\* off what it shows.
Onward(x, y) == x.uid = y.uid \/ x.shown # x.uid
Calm(x, y)    == /\ x.turn = y.turn
                 /\ \/ x.shown = 0
                    \/ /\ x.shown = y.shown /\ x.octets = y.octets /\ x.cached = y.cached
                       /\ x.checking => y.checking
                       /\ Onward(x, y)
CalmJob(x, y) == \/ x.shown = 0
                 \/ /\ x.shown = y.shown /\ x.decrypt = y.decrypt
                    /\ x.sigBusy => y.sigBusy
                    /\ Onward(x, y)

LEMMA CalmKeeps ==
    ASSUME NEW w, NEW v, NEW R, NEW H, NEW o, NEW s, CheckInv(w, R, H, o, s),
           \A c \in RP!Contexts : Calm(v.ctx[c], w.ctx[c]), v.checks = w.checks
    PROVE  CheckInv(v, R, H, o, s)
<1>1. Evidence(v, R, H)
  BY DEF CheckInv, Evidence, EvidenceAt, Calm, Onward, Settled
<1>2. Turns(v, R)
  BY DEF CheckInv, Turns, Calm
<1>3. ~o => Unopened(v, R, H)
  BY DEF CheckInv, Unopened, Calm, RP!Contexts
<1>4. ASSUME ~s PROVE Origin(v, R)
  <2>1. Origin(w, R) /\ \A k \in w.checks \cup R : k.ctx \in RP!Contexts
    BY <1>4 DEF CheckInv, Turns
  <2>2. \A k \in v.checks : CheckOK(v, k)
    BY <2>1 DEF Origin, CheckOK, Own, Calm
  <2>3. \A k \in v.checks \cup R : OctetsOK(v, k)
    BY <2>1 DEF Origin, OctetsOK, Own, Calm
  <2>4. \A c \in RP!Contexts : BadgeOK(v.ctx[c])
    BY <2>1 DEF Origin, BadgeOK, Calm
  <2> QED BY <2>2, <2>3, <2>4 DEF Origin
<1> QED BY <1>1, <1>2, <1>3, <1>4 DEF CheckInv

\* What a pane that says so waits for.
Awaited(x, j) == "pane" \in j.waiting /\ (j.kind = "verify" \/ (j.kind = "decrypt" /\ j.id = x.decrypt))
Deciphering(w) == LET x == w.ctx["pane"] IN
  x.shown # 0 /\ x.decrypt # 0 => \E j \in w.jobs : j.kind = "decrypt" /\ Awaited(x, j)
Signing(w, H) == LET x == w.ctx["pane"] IN
  Settled(x) /\ x.sigBusy => \/ \E j \in w.jobs : Awaited(x, j)
                            \/ \E h \in H : h.ctx = "pane" /\ h.uid = x.uid /\ h.reason = "pgp"
JobInv(w, H) == Deciphering(w) /\ Signing(w, H)

LEMMA HandedKeeps ==
    ASSUME NEW w, NEW H, Handed(w.ctx["pane"], w.jobs)
    PROVE  JobInv(w, H)
BY DEF Handed, JobInv, Deciphering, Signing, Awaited

LEMMA JoinedKeeps ==
    ASSUME NEW w, NEW v, NEW H, JobInv(w, H), SameJob(v.ctx["pane"], w.ctx["pane"]),
           \A j \in w.jobs : \E k \in v.jobs : k.id = j.id /\ k.kind = j.kind /\ j.waiting \subseteq k.waiting
    PROVE  JobInv(v, H)
<1> DEFINE x == w.ctx["pane"]
           y == v.ctx["pane"]
<1>1. y.uid = x.uid /\ y.shown = x.shown /\ y.sigBusy = x.sigBusy /\ y.decrypt = x.decrypt
  BY DEF SameJob
<1>2. ASSUME NEW j \in w.jobs, Awaited(x, j)
      PROVE  \E k \in v.jobs : k.kind = j.kind /\ Awaited(y, k)
  BY <1>1, <1>2 DEF Awaited
<1>3. x = w.ctx["pane"] /\ y = v.ctx["pane"]
  OBVIOUS
<1> HIDE DEF x, y
<1>4. Deciphering(v)
  BY <1>1, <1>2, <1>3 DEF JobInv, Deciphering
<1>5. Signing(v, H)
  BY <1>1, <1>2, <1>3 DEF JobInv, Signing, Settled
<1> QED BY <1>4, <1>5 DEF JobInv

LEMMA CalmJobKeeps ==
    ASSUME NEW w, NEW v, NEW H, JobInv(w, H), CalmJob(v.ctx["pane"], w.ctx["pane"]), v.jobs = w.jobs
    PROVE  JobInv(v, H)
<1> DEFINE x == w.ctx["pane"]
           y == v.ctx["pane"]
<1>1. x = w.ctx["pane"] /\ y = v.ctx["pane"] /\ CalmJob(y, x)
  OBVIOUS
<1> HIDE DEF x, y
<1>2. Deciphering(v)
  BY <1>1 DEF JobInv, Deciphering, CalmJob, Awaited
<1>3. Signing(v, H)
  BY <1>1 DEF JobInv, Signing, Settled, CalmJob, Onward, Awaited
<1> QED BY <1>2, <1>3 DEF JobInv

LEMMA Committed ==
    ASSUME NEW w, IsWorld(w), RP!Commit(w)
    PROVE  RP!World' = w /\ WorldOK'
<1>1. RP!World' = [ctx |-> w.ctx, checks |-> w.checks, jobs |-> w.jobs]
  BY DEF RP!World, RP!Commit
<1>2. w = [ctx |-> w.ctx, checks |-> w.checks, jobs |-> w.jobs]
  BY DEF IsWorld
<1>3. RP!World' = w
  BY <1>1, <1>2
<1>4. IsWorld(RP!World')
  BY <1>3
<1> QED BY <1>3, <1>4 DEF WorldOK

-----------------------------------------------------------------------------
(* The invariant, and the steps.                                            *)

Asking == [uid : Read, serial : Nat, retry : BOOLEAN, asleep : BOOLEAN]
ReadTypes ==
  /\ WorldOK /\ JobsOK(readingJobs)
  /\ opened \in BOOLEAN /\ strayed \in BOOLEAN /\ serial \in Nat /\ requests \subseteq Asking
  /\ bodies \in [Read -> {"none", "stale", "wire"}]
  /\ verdict \in [Read -> {verdict[m] : m \in Read}]
  /\ \A h \in heals : h.ctx \in RP!Contexts /\ h.reason \in {"dkim", "pgp"}
\* What is on screen has a body.
BodiedAt(x) == x.shown # 0 => x.shown \in Read /\ bodies[x.shown] # "none"
Bodied == \A c \in RP!Contexts : BodiedAt(ctx[c])
VerdictsOK ==
  ~strayed => \A m \in Read : /\ verdict[m] # RP!Unset => verdict[m].of = m
                              /\ verdict[m].status \in {"fail", "modified"} => m \in Altered
Checked == CheckInv(RP!World, retries, heals, opened, strayed)
Jobbed  == JobInv(RP!World, heals)
ReadInv == ReadTypes /\ Bodied /\ RP!PaneAgrees /\ Checked /\ Jobbed /\ VerdictsOK

LEMMA WorldIs == RP!World.ctx = ctx /\ RP!World.checks = checks /\ RP!World.jobs = readingJobs
BY DEF RP!World
LEMMA WorldIsNext == RP!World'.ctx = ctx' /\ RP!World'.checks = checks' /\ RP!World'.jobs = readingJobs'
BY DEF RP!World

LEMMA ReadStarts ==
    ASSUME RP!ReadingPaneAssumption, RP!Init
    PROVE  ReadInv
<1>1. /\ checks = {} /\ retries = {} /\ heals = {} /\ readingJobs = {} /\ requests = {} /\ serial = 0
      /\ opened = FALSE /\ strayed = FALSE /\ RP!Contexts = {"pane", "window"}
      /\ ctx["pane"] = RP!Empty /\ ctx["window"] = RP!Empty /\ ctx \in [RP!Contexts -> {RP!Empty}]
  BY DEF RP!Init, RP!Contexts
<1>2. Shape(RP!Empty) /\ RP!Empty.shown = 0 /\ RP!Empty.turn = 0
  BY DEF RP!Empty, Shape
<1>3. WorldOK
  <2>1. RP!World \in [ctx : {RP!World.ctx}, checks : {RP!World.checks}, jobs : {RP!World.jobs}]
    BY DEF RP!World
  <2> QED BY <1>1, <1>2, <2>1, WorldIs DEF WorldOK, IsWorld
<1>4. ReadTypes
  <2>1. bodies \in [Read -> {"none", "stale", "wire"}] /\ verdict \in [Read -> {verdict[m] : m \in Read}]
    BY DEF RP!Init
  <2> QED BY <1>1, <1>3, <2>1 DEF ReadTypes, JobsOK
<1>5. Bodied
  BY <1>1, <1>2 DEF Bodied, BodiedAt
<1>6. RP!PaneAgrees
  BY <1>1, <1>2 DEF RP!PaneAgrees, RP!Reading
<1>7. Checked
  <2>1. Evidence(RP!World, retries, heals)
    BY <1>1, <1>2, WorldIs DEF Evidence, EvidenceAt, Settled
  <2>2. Turns(RP!World, retries) /\ Unopened(RP!World, retries, heals)
    BY <1>1, <1>2, WorldIs DEF Turns, Unopened
  <2>3. Origin(RP!World, retries)
    BY <1>1, <1>2, WorldIs DEF Origin, BadgeOK
  <2> QED BY <2>1, <2>2, <2>3 DEF Checked, CheckInv
<1>8. Jobbed
  BY <1>1, <1>2, WorldIs DEF Jobbed, JobInv, Deciphering, Signing, Settled
<1>9. VerdictsOK
  <2>1. \A m \in Read : verdict[m] = RP!Unset
    BY DEF RP!Init
  <2>2. RP!Unset.status \notin {"fail", "modified"}
    BY DEF RP!Unset
  <2> QED BY <2>1, <2>2 DEF VerdictsOK
<1> QED BY <1>4, <1>5, <1>6, <1>7, <1>8, <1>9 DEF ReadInv

LEMMA PresentMessageKeeps ==
    ASSUME ReadTypes, Checked, NEW u, NEW m, NEW octets, NEW cached \in BOOLEAN, NEW H,
           ~cached => octets # "stale", m # 0, RP!PresentMessage(u, m, octets, cached)
    PROVE  /\ detach' = 0 /\ opened' \in BOOLEAN /\ WorldOK' /\ JobsOK(readingJobs')
           /\ CheckInv(RP!World', retries, heals, opened', strayed) /\ JobInv(RP!World', H)
           /\ ctx'["pane"].uid = u /\ ctx'["pane"].shown = m
           /\ ctx'["window"].shown \in {ctx["window"].shown, m}
<1> DEFINE w == RP!Presented(u, m, octets, cached)
           d == RP!Detached(w, cached)
<1>1. IsWorld(w) /\ JobsOK(w.jobs) /\ Shown(w, u, m, octets, cached) /\ Handed(w.ctx["pane"], w.jobs)
  BY Presents DEF ReadTypes
<1>2. /\ detach' = 0
      /\ \/ detach = u /\ ~opened /\ opened' = TRUE /\ RP!Commit(d)
         \/ opened' = opened /\ RP!Commit(w)
  BY DEF RP!PresentMessage
<1> HIDE DEF w
<1>3. CheckInv(w, retries, heals, opened, strayed)
  BY <1>1, ShownKeeps DEF ReadTypes, Checked
<1>4. CASE opened' = opened /\ RP!Commit(w)
  <2>1. RP!World' = w /\ WorldOK'
    BY <1>1, <1>4, Committed
  <2>2. JobInv(w, H)
    BY <1>1, HandedKeeps
  <2>3. CheckInv(RP!World', retries, heals, opened', strayed)
    BY <1>3, <1>4, <2>1
  <2> QED BY <1>1, <1>2, <1>4, <2>1, <2>2, <2>3, WorldIsNext DEF Shown, ReadTypes
<1>5. CASE ~opened /\ opened' = TRUE /\ RP!Commit(d)
  <2> DEFINE y == w.ctx["pane"]
             z == d.ctx["window"]
  <2>1. /\ IsWorld(d) /\ d.ctx["pane"] = y /\ JobsOK(d.jobs) /\ z.shown = y.shown
        /\ \A j \in w.jobs : \E k \in d.jobs : k.id = j.id /\ k.kind = j.kind /\ j.waiting \subseteq k.waiting
    BY <1>1, Detaches
  <2>2. /\ Evidence(w, retries, heals) /\ Turns(w, retries) /\ Unopened(w, retries, heals)
        /\ ~strayed => Origin(w, retries)
    BY <1>3, <1>5 DEF CheckInv
  <2>3. y.shown = m /\ y.octets = octets /\ (y.checking => y.cached = cached)
    BY <1>1 DEF Shown
  <2> DEFINE o == opened'
  <2>4. o
    BY <1>5
  <2> HIDE DEF d, o
  <2>5. CheckInv(RP!Detached(w, cached), retries, heals, o, strayed)
    <3> DEFINE p == w.ctx["pane"]
    <3>1. p = w.ctx["pane"] /\ p.shown # 0 /\ (~strayed /\ p.checking /\ ~cached => p.octets # "stale")
      BY <2>3
    <3> HIDE DEF p
    <3> QED BY <1>1, <2>2, <2>4, <3>1, DetachedKeeps
  <2>6. RP!World' = d /\ WorldOK'
    BY <1>5, <2>1, Committed
  <2>7. JobInv(d, H)
    <3>1. JobInv(w, H)
      BY <1>1, HandedKeeps
    <3>2. SameJob(d.ctx["pane"], w.ctx["pane"])
      BY <2>1 DEF SameJob
    <3> QED BY <2>1, <3>1, <3>2, JoinedKeeps
  <2>8. CheckInv(RP!World', retries, heals, opened', strayed)
    BY <2>5, <2>6 DEF d, o
  <2> QED BY <1>1, <1>2, <1>5, <2>1, <2>3, <2>6, <2>7, <2>8, WorldIsNext DEF Shown
<1> QED BY <1>2, <1>4, <1>5

\* One context is written.
LEMMA Written ==
    ASSUME WorldOK, NEW c \in RP!Contexts, NEW x, Shape(x), ctx' = [ctx EXCEPT ![c] = x]
    PROVE  WorldOK' /\ ctx'[c] = x /\ \A d \in RP!Contexts \ {c} : ctx'[d] = ctx[d]
<1>1. /\ ctx'[c] = x /\ \A d \in RP!Contexts \ {c} : ctx'[d] = ctx[d]
      /\ ctx' \in [RP!Contexts -> {ctx'[d] : d \in RP!Contexts}] /\ \A d \in RP!Contexts : Shape(ctx'[d])
  BY WorldIs DEF WorldOK, IsWorld
<1>2. RP!World' \in [ctx : {ctx'}, checks : {checks'}, jobs : {readingJobs'}]
  BY DEF RP!World
<1>3. IsWorld(RP!World')
  BY <1>1, <1>2, WorldIsNext DEF IsWorld
<1> QED BY <1>1, <1>3 DEF WorldOK

\* What an action that writes one context, calmly, keeps.
LEMMA WrittenKeeps ==
    ASSUME ReadInv, NEW c \in RP!Contexts, NEW x, Shape(x), ctx' = [ctx EXCEPT ![c] = x],
           Calm(x, ctx[c]), CalmJob(x, ctx[c]) \/ c = "window", UNCHANGED <<checks, readingJobs>>
    PROVE  /\ WorldOK' /\ CheckInv(RP!World', retries, heals, opened, strayed) /\ JobInv(RP!World', heals)
           /\ \A d \in RP!Contexts : ctx'[d].shown \in {0, ctx[d].shown}
<1>1. WorldOK' /\ ctx'[c] = x /\ \A d \in RP!Contexts \ {c} : ctx'[d] = ctx[d]
  BY Written DEF ReadInv, ReadTypes
<1>2. \A d \in RP!Contexts : Calm(ctx'[d], ctx[d])
  BY <1>1 DEF Calm, Onward
<1>3. CalmJob(ctx'["pane"], ctx["pane"])
  BY <1>1 DEF CalmJob, Onward, RP!Contexts
<1>4. CheckInv(RP!World', retries, heals, opened, strayed)
  <2>1. CheckInv(RP!World, retries, heals, opened, strayed)
    BY DEF ReadInv, Checked
  <2>2. RP!World'.checks = RP!World.checks /\ \A d \in RP!Contexts : Calm(RP!World'.ctx[d], RP!World.ctx[d])
    BY <1>2, WorldIs, WorldIsNext
  <2> QED BY <2>1, <2>2, CalmKeeps
<1>5. JobInv(RP!World', heals)
  <2>1. JobInv(RP!World, heals)
    BY DEF ReadInv, Jobbed
  <2>2. RP!World'.jobs = RP!World.jobs /\ CalmJob(RP!World'.ctx["pane"], RP!World.ctx["pane"])
    BY <1>3, WorldIs, WorldIsNext
  <2> QED BY <2>1, <2>2, CalmJobKeeps
<1> QED BY <1>1, <1>2, <1>4, <1>5 DEF Calm

LEMMA Cleared ==
    ASSUME NEW x, Shape(x)
    PROVE  Shape(RP!Clear(x)) /\ RP!Clear(x).shown = 0 /\ RP!Clear(x).uid = 0 /\ Calm(RP!Clear(x), x) /\ CalmJob(RP!Clear(x), x)
<1> DEFINE y == RP!Clear(x)
<1>1. x.turn \in Nat /\ x.cached \in BOOLEAN /\ x.checking \in BOOLEAN
  BY DEF Shape
<1>2. y \in [uid : {0}, shown : {0}, turn : {x.turn}, octets : {"none"}, cached : {x.cached},
             dkim : {x.dkim}, checking : {x.checking}, tries : {0}, sig : {RP!Unset},
             sigBusy : BOOLEAN, sigCached : BOOLEAN, verify : {0}, decrypt : {0}]
  BY DEF RP!Clear, RP!Empty
<1> HIDE DEF y
<1>3. Shape(y) /\ y.shown = 0 /\ y.uid = 0 /\ y.turn = x.turn
  BY <1>1, <1>2 DEF Shape
<1> QED BY <1>3 DEF Calm, CalmJob, y

\* What is presented, of a step that leaves the checks' other sets alone.
LEMMA PresentedStays ==
    ASSUME RP!ReadingPaneAssumption, ReadInv, NEW u, NEW m \in Read, NEW octets, NEW cached \in BOOLEAN,
           ~cached => octets # "stale", RP!PresentMessage(u, m, octets, cached),
           u = m, bodies' \in [Read -> {"none", "stale", "wire"}], bodies'[m] # "none",
           \A n \in Read : bodies[n] # "none" => bodies'[n] # "none",
           requests' \subseteq Asking, serial' \in Nat,
           UNCHANGED <<retries, heals, verdict, strayed>>
    PROVE  ReadInv'
<1>1. m # 0
  BY DEF RP!ReadingPaneAssumption
<1>2. /\ opened' \in BOOLEAN /\ WorldOK' /\ JobsOK(readingJobs')
      /\ CheckInv(RP!World', retries, heals, opened', strayed) /\ JobInv(RP!World', heals)
      /\ ctx'["pane"].uid = u /\ ctx'["pane"].shown = m
      /\ ctx'["window"].shown \in {ctx["window"].shown, m}
  BY <1>1, PresentMessageKeeps DEF ReadInv
<1>3. ReadTypes'
  BY <1>2 DEF ReadInv, ReadTypes
<1>4. Bodied'
  BY <1>2 DEF ReadInv, Bodied, BodiedAt, RP!Contexts
<1>5. RP!PaneAgrees'
  BY <1>2 DEF RP!PaneAgrees
<1>6. Checked' /\ Jobbed'
  BY <1>2 DEF Checked, Jobbed
<1>7. VerdictsOK'
  BY DEF ReadInv, VerdictsOK
<1> QED BY <1>3, <1>4, <1>5, <1>6, <1>7 DEF ReadInv

LEMMA ClickStays ==
    ASSUME RP!ReadingPaneAssumption, ReadInv, NEW m \in Read, RP!Click(m)
    PROVE  ReadInv'
<1>1. RP!FetchMessage(m) /\ UNCHANGED <<retries, heals, healed, verdict, strayed>>
  BY DEF RP!Click
<1>2. CASE bodies[m] # "none"
  <2> DEFINE yes == TRUE
             e == bodies[m]
  <2>1. RP!PresentMessage(m, m, e, yes) /\ UNCHANGED <<bodies, requests, serial>>
    BY <1>1, <1>2 DEF RP!FetchMessage, RP!fetch
  <2>2. yes \in BOOLEAN /\ yes
    OBVIOUS
  <2>3. /\ requests' \subseteq Asking /\ serial' \in Nat /\ bodies' \in [Read -> {"none", "stale", "wire"}]
        /\ bodies'[m] # "none" /\ \A n \in Read : bodies[n] # "none" => bodies'[n] # "none"
    BY <1>2, <2>1 DEF ReadInv, ReadTypes
  <2> HIDE DEF yes, e
  <2> QED BY <1>1, <2>1, <2>2, <2>3, PresentedStays
<1>3. CASE bodies[m] = "none"
  <2>1. UNCHANGED <<bodies, checks, readingJobs, opened>>
    BY <1>1, <1>3 DEF RP!FetchMessage
  <2>2. ctx["pane"].shown # m /\ m # 0 /\ "pane" \in RP!Contexts /\ Shape(ctx["pane"])
    BY <1>3, WorldIs DEF ReadInv, Bodied, BodiedAt, RP!ReadingPaneAssumption, RP!Contexts, ReadTypes, WorldOK, IsWorld
  <2>3. ASSUME NEW x, Shape(x), ctx' = [ctx EXCEPT !["pane"] = x], Calm(x, ctx["pane"]), CalmJob(x, ctx["pane"]),
               requests' \subseteq Asking, serial' \in Nat, RP!PaneAgrees'
        PROVE  ReadInv'
    <3>1. /\ WorldOK' /\ CheckInv(RP!World', retries, heals, opened, strayed) /\ JobInv(RP!World', heals)
          /\ \A d \in RP!Contexts : ctx'[d].shown \in {0, ctx[d].shown}
      BY <2>1, <2>2, <2>3, WrittenKeeps
    <3>2. ReadTypes'
      BY <1>1, <2>1, <2>3, <3>1 DEF ReadInv, ReadTypes
    <3>3. Bodied'
      BY <2>1, <3>1 DEF ReadInv, Bodied, BodiedAt
    <3>4. Checked' /\ Jobbed' /\ VerdictsOK'
      BY <1>1, <2>1, <3>1 DEF ReadInv, Checked, Jobbed, VerdictsOK
    <3> QED BY <2>3, <3>2, <3>3, <3>4 DEF ReadInv
  <2>4. CASE readingOnline
    <3> DEFINE y == ctx["pane"]
               x == [y EXCEPT !.uid = m]
               n == serial + 1
               r == [uid |-> m, serial |-> n, retry |-> FALSE, asleep |-> FALSE]
    <3>1. ctx' = [ctx EXCEPT !["pane"] = x] /\ serial' = n /\ requests' = requests \cup {r}
      BY <1>1, <1>3, <2>4 DEF RP!FetchMessage, RP!RequestMessageBody
    <3>2. /\ Shape(x) /\ x.uid = m /\ x.shown = y.shown /\ x.turn = y.turn /\ x.octets = y.octets
          /\ x.cached = y.cached /\ x.checking = y.checking /\ x.decrypt = y.decrypt /\ x.sigBusy = y.sigBusy
      <4> HIDE DEF y
      <4>1. Shape(y)
        BY <2>2 DEF y
      <4> QED BY <4>1 DEF Shape
    <3>3. Calm(x, y) /\ CalmJob(x, y)
      <4> HIDE DEF x
      <4> QED BY <2>2, <3>2 DEF Calm, CalmJob, Onward
    <3>4. r \in Asking /\ n \in Nat /\ r.uid = m /\ r.serial = n /\ ~r.asleep
      BY DEF Asking, ReadInv, ReadTypes
    <3> HIDE DEF x, n, r
    <3>5. ctx'["pane"] = x
      BY <2>2, <3>1, <3>2, Written DEF ReadInv, ReadTypes
    <3>6. RP!PaneAgrees'
      BY <3>1, <3>2, <3>4, <3>5 DEF RP!PaneAgrees, RP!Loading, RP!StillWanted
    <3>7. requests' \subseteq Asking /\ serial' \in Nat
      BY <3>1, <3>4 DEF ReadInv, ReadTypes
    <3> QED BY <2>3, <3>1, <3>2, <3>3, <3>6, <3>7
  <2>5. CASE ~readingOnline
    <3> DEFINE x == RP!Clear(ctx["pane"])
    <3>1. ctx' = [ctx EXCEPT !["pane"] = x] /\ UNCHANGED <<requests, serial>>
      BY <1>1, <1>3, <2>5 DEF RP!FetchMessage
    <3>2. Shape(x) /\ Calm(x, ctx["pane"]) /\ CalmJob(x, ctx["pane"]) /\ x.shown = 0
      BY <2>2, Cleared
    <3> HIDE DEF x
    <3>3. ctx'["pane"] = x
      BY <2>2, <3>1, <3>2, Written DEF ReadInv, ReadTypes
    <3>4. RP!PaneAgrees'
      BY <3>2, <3>3 DEF RP!PaneAgrees, RP!Reading
    <3>5. requests' \subseteq Asking /\ serial' \in Nat
      BY <3>1 DEF ReadInv, ReadTypes
    <3> QED BY <2>3, <3>1, <3>2, <3>4, <3>5
  <2> QED BY <2>4, <2>5
<1> QED BY <1>2, <1>3

LEMMA WindowStays ==
    ASSUME ReadInv, NEW m \in Read, RP!OpenMessageInWindow(m)
    PROVE  ReadInv'
<1>1. ~opened /\ UNCHANGED <<bodies, requests, serial, retries, heals, verdict>>
  BY DEF RP!OpenMessageInWindow, RP!fetch
<1>2. CASE RP!Reading("pane") /\ ctx["pane"].uid = m
  <2> DEFINE no == FALSE
             d  == RP!Detached(RP!World, no)
             y  == ctx["pane"]
             o  == opened'
             s  == strayed'
  <2>1. /\ opened' = TRUE /\ RP!Commit(RP!Detached(RP!World, FALSE))
        /\ strayed' = (strayed \/ (y.checking /\ y.cached))
    BY <1>2 DEF RP!OpenMessageInWindow
  <2>2. o /\ o \in BOOLEAN /\ no \in BOOLEAN /\ ~no /\ RP!Commit(d)
    BY <2>1
  <2>3. s \in BOOLEAN /\ (~s => ~strayed /\ ~(y.checking /\ y.cached))
    BY <2>1 DEF ReadInv, ReadTypes
  <2> HIDE DEF no, o, s
  <2>4. /\ IsWorld(RP!World) /\ JobsOK(RP!World.jobs) /\ RP!World.ctx["pane"] = y /\ y.shown # 0
    BY <1>2, WorldIs DEF ReadInv, ReadTypes, WorldOK, RP!Reading
  <2>5. /\ Evidence(RP!World, retries, heals) /\ Turns(RP!World, retries) /\ Unopened(RP!World, retries, heals)
        /\ ~strayed => Origin(RP!World, retries)
    BY <1>1 DEF ReadInv, Checked, CheckInv
  <2>6. ~s /\ y.checking /\ ~no => y.octets # "stale"
    <3>1. "pane" \in RP!Contexts
      BY DEF RP!Contexts
    <3>2. ~strayed => BadgeOK(RP!World.ctx["pane"])
      BY <2>5, <3>1 DEF Origin
    <3> QED BY <2>3, <2>4, <3>2 DEF BadgeOK
  <2>7. CheckInv(d, retries, heals, o, s)
    <3>1. ~s => Origin(RP!World, retries)
      BY <2>3, <2>5
    <3>2. CheckInv(RP!Detached(RP!World, no), retries, heals, o, s)
      <4> DEFINE p == RP!World.ctx["pane"]
      <4>1. p = RP!World.ctx["pane"] /\ p = y
        BY <2>4
      <4> HIDE DEF p, d, y
      <4> QED BY <2>2, <2>4, <2>5, <2>6, <3>1, <4>1, DetachedKeeps
    <3> QED BY <3>2
  <2>8. /\ IsWorld(d) /\ d.ctx["pane"] = y /\ JobsOK(d.jobs) /\ d.ctx["window"].shown = y.shown
        /\ \A j \in RP!World.jobs : \E k \in d.jobs : k.id = j.id /\ k.kind = j.kind /\ j.waiting \subseteq k.waiting
    BY <2>2, <2>4, Detaches
  <2> HIDE DEF d
  <2>9. RP!World' = d /\ WorldOK'
    BY <2>2, <2>8, Committed
  <2>10. JobInv(d, heals)
    <3>1. JobInv(RP!World, heals) /\ SameJob(d.ctx["pane"], RP!World.ctx["pane"])
      BY <2>4, <2>8 DEF ReadInv, Jobbed, SameJob
    <3> QED BY <2>8, <3>1, JoinedKeeps
  <2>11. ctx'["pane"] = y /\ ctx'["window"].shown = y.shown /\ readingJobs' = d.jobs
    BY <2>8, <2>9, WorldIsNext
  <2>12. ReadTypes'
    BY <1>1, <2>2, <2>3, <2>8, <2>9, <2>11 DEF ReadInv, ReadTypes, o, s
  <2>13. Bodied'
    BY <1>1, <2>11 DEF ReadInv, Bodied, BodiedAt, RP!Contexts
  <2>14. RP!PaneAgrees'
    BY <1>1, <2>11 DEF ReadInv, RP!PaneAgrees, RP!Loading, RP!StillWanted, RP!Reading
  <2>15. Checked' /\ Jobbed'
    BY <1>1, <2>7, <2>9, <2>10 DEF Checked, Jobbed, o, s
  <2>16. VerdictsOK'
    BY <1>1, <2>3 DEF ReadInv, VerdictsOK, s
  <2> QED BY <2>12, <2>13, <2>14, <2>15, <2>16 DEF ReadInv
<1>3. CASE ~(RP!Reading("pane") /\ ctx["pane"].uid = m)
  <2>1. UNCHANGED <<ctx, opened, checks, readingJobs, strayed>>
    BY <1>3 DEF RP!OpenMessageInWindow
  <2> QED BY <1>1, <2>1 DEF ReadInv, ReadTypes, WorldOK, RP!World, Bodied, BodiedAt, RP!PaneAgrees, RP!Reading, RP!Loading,
                             RP!StillWanted, Checked, Jobbed, VerdictsOK
<1> QED BY <1>2, <1>3

LEMMA ArrivalStays ==
    ASSUME RP!ReadingPaneAssumption, ReadInv, NEW r \in requests, RP!BodyArrives(r)
    PROVE  ReadInv'
<1>1. /\ ~r.asleep /\ requests' = requests \ {r} /\ bodies' = [bodies EXCEPT ![r.uid] = "wire"]
      /\ UNCHANGED <<serial, retries, heals, verdict, strayed>> /\ r.uid \in Read
  BY DEF RP!BodyArrives, RP!Answered, ReadInv, ReadTypes, Asking
<1>2. /\ bodies' \in [Read -> {"none", "stale", "wire"}] /\ bodies'[r.uid] = "wire"
      /\ \A n \in Read : bodies[n] # "none" => bodies'[n] # "none"
      /\ requests' \subseteq Asking /\ serial' \in Nat
  BY <1>1 DEF ReadInv, ReadTypes
<1>3. CASE RP!StillWanted(r)
  <2> DEFINE no == FALSE
             u  == ctx["pane"].uid
             m  == r.uid
  <2>1. RP!PresentMessage(u, m, "wire", no) /\ u = m
    BY <1>3 DEF RP!BodyArrives, RP!StillWanted
  <2>2. no \in BOOLEAN
    OBVIOUS
  <2> HIDE DEF no, u, m
  <2>3. m \in Read /\ bodies'[m] # "none"
    BY <1>1, <1>2 DEF m
  <2> DEFINE wire == "wire"
  <2>4. RP!PresentMessage(u, m, wire, no) /\ (~no => wire # "stale")
    BY <2>1
  <2> HIDE DEF wire
  <2> QED BY <1>1, <1>2, <2>1, <2>2, <2>3, <2>4, PresentedStays
<1>4. CASE ~RP!StillWanted(r)
  <2>1. UNCHANGED <<ctx, opened, detach, checks, readingJobs>>
    BY <1>4 DEF RP!BodyArrives, RP!pane
  <2>2. ReadTypes' /\ Bodied'
    BY <1>1, <1>2, <2>1 DEF ReadInv, ReadTypes, WorldOK, RP!World, Bodied, BodiedAt
  <2>3. RP!PaneAgrees'
    BY <1>1, <1>4, <2>1 DEF ReadInv, RP!PaneAgrees, RP!Reading, RP!Loading, RP!StillWanted
  <2> QED BY <1>1, <2>1, <2>2, <2>3 DEF ReadInv, Checked, RP!World, Jobbed, VerdictsOK
<1> QED BY <1>3, <1>4

\* A step that changes nothing but what is asked for.
LEMMA AskedStays ==
    ASSUME ReadInv, UNCHANGED <<ctx, opened, checks, readingJobs, bodies, retries, heals, verdict, strayed>>,
           requests' \subseteq Asking, serial' \in Nat, RP!PaneAgrees'
    PROVE  ReadInv'
<1>1. ReadTypes' /\ Bodied'
  BY DEF ReadInv, ReadTypes, WorldOK, RP!World, Bodied, BodiedAt
<1>2. Checked' /\ Jobbed' /\ VerdictsOK'
  BY DEF ReadInv, Checked, RP!World, Jobbed, VerdictsOK
<1> QED BY <1>1, <1>2 DEF ReadInv

LEMMA DeclinedStays ==
    ASSUME ReadInv, NEW r \in requests, RP!BodyDeclined(r)
    PROVE  ReadInv'
<1> DEFINE q == [r EXCEPT !.asleep = TRUE]
<1>1. r \in Asking
  BY DEF ReadInv, ReadTypes
<1>2. q \in Asking /\ q.uid = r.uid /\ q.serial = r.serial /\ q.asleep
  BY <1>1 DEF Asking
<1>3. requests' = (requests \ {r}) \cup (IF RP!StillWanted(r) THEN {q} ELSE {})
  BY DEF RP!BodyDeclined
<1>4. UNCHANGED <<ctx, opened, checks, readingJobs, bodies, retries, heals, verdict, strayed, serial>>
  BY DEF RP!BodyDeclined, RP!pane, RP!dkim
<1> HIDE DEF q
<1>5. requests' \subseteq Asking /\ serial' \in Nat
  BY <1>2, <1>3, <1>4 DEF ReadInv, ReadTypes
<1>6. RP!PaneAgrees'
  <2>1. CASE RP!StillWanted(r)
    <3>1. q \in requests' /\ q.uid = ctx["pane"].uid
      BY <1>2, <1>3, <2>1 DEF RP!StillWanted
    <3> QED BY <1>2, <1>4, <3>1 DEF RP!PaneAgrees, RP!Loading
  <2>2. CASE ~RP!StillWanted(r)
    <3>1. ~r.asleep
      BY DEF RP!BodyDeclined
    <3> QED BY <1>3, <1>4, <2>2, <3>1 DEF ReadInv, RP!PaneAgrees, RP!Reading, RP!Loading, RP!StillWanted
  <2> QED BY <2>1, <2>2
<1> QED BY <1>4, <1>5, <1>6, AskedStays

LEMMA AskingAgainStays ==
    ASSUME ReadInv, NEW r \in requests, RP!AskAgain(r)
    PROVE  ReadInv'
<1> DEFINE n == serial + 1
           q == [uid |-> r.uid, serial |-> n, retry |-> TRUE, asleep |-> FALSE]
<1>1. UNCHANGED <<ctx, opened, checks, readingJobs, bodies, retries, heals, verdict, strayed>>
  BY DEF RP!AskAgain, RP!pane, RP!dkim
<1>2. r \in Asking /\ n \in Nat /\ q \in Asking /\ q.uid = r.uid /\ q.serial = n
  BY DEF ReadInv, ReadTypes, Asking
<1>3. CASE ctx["pane"].uid = r.uid
  <2>1. serial' = n /\ requests' = (requests \ {r}) \cup {q}
    BY <1>3 DEF RP!AskAgain, RP!RequestMessageBody
  <2> HIDE DEF q, n
  <2>2. RP!PaneAgrees'
    <3>1. \E x \in requests' : x.uid = ctx'["pane"].uid /\ x.serial = serial'
      BY <1>1, <1>2, <1>3, <2>1
    <3> QED BY <3>1 DEF RP!PaneAgrees, RP!Loading, RP!StillWanted
  <2> QED BY <1>1, <1>2, <2>1, <2>2, AskedStays DEF ReadInv, ReadTypes
<1>4. CASE ctx["pane"].uid # r.uid
  <2>1. serial' = serial /\ requests' = requests \ {r}
    BY <1>4 DEF RP!AskAgain
  <2>2. RP!PaneAgrees'
    BY <1>1, <1>4, <2>1 DEF ReadInv, RP!PaneAgrees, RP!Reading, RP!Loading, RP!StillWanted
  <2> QED BY <1>1, <2>1, <2>2, AskedStays DEF ReadInv, ReadTypes
<1> QED BY <1>3, <1>4

LEMMA FailureStays ==
    ASSUME ReadInv, NEW r \in requests, RP!BodyFails(r)
    PROVE  ReadInv'
<1>1. /\ ~r.asleep /\ requests' = requests \ {r}
      /\ UNCHANGED <<opened, bodies, serial, checks, retries, heals, healed, verdict, readingJobs, strayed>>
  BY DEF RP!BodyFails, RP!Answered, RP!dkim
<1>2. requests' \subseteq Asking /\ serial' \in Nat
  BY <1>1 DEF ReadInv, ReadTypes
<1>3. CASE RP!StillWanted(r)
  <2> DEFINE x == RP!Clear(ctx["pane"])
             c == "pane"
  <2>1. ctx' = [ctx EXCEPT ![c] = x] /\ c \in RP!Contexts /\ Shape(ctx[c]) /\ c = "pane"
    BY <1>3, WorldIs DEF RP!BodyFails, ReadInv, ReadTypes, WorldOK, IsWorld, RP!Contexts
  <2>2. Shape(x) /\ Calm(x, ctx[c]) /\ CalmJob(x, ctx[c]) /\ x.shown = 0
    BY <2>1, Cleared
  <2> HIDE DEF x, c
  <2>3. ctx'["pane"] = x
    BY <2>1, <2>2, Written DEF ReadInv, ReadTypes
  <2>4. /\ WorldOK' /\ CheckInv(RP!World', retries, heals, opened, strayed) /\ JobInv(RP!World', heals)
        /\ \A d \in RP!Contexts : ctx'[d].shown \in {0, ctx[d].shown}
    BY <1>1, <2>1, <2>2, WrittenKeeps
  <2>5. ReadTypes' /\ Bodied'
    BY <1>1, <1>2, <2>4 DEF ReadInv, ReadTypes, Bodied, BodiedAt
  <2>6. RP!PaneAgrees'
    BY <2>2, <2>3 DEF RP!PaneAgrees, RP!Reading
  <2> QED BY <1>1, <2>4, <2>5, <2>6 DEF ReadInv, Checked, Jobbed, VerdictsOK
<1>4. CASE ~RP!StillWanted(r)
  <2>1. UNCHANGED ctx
    BY <1>4 DEF RP!BodyFails
  <2>2. RP!PaneAgrees'
    BY <1>1, <1>4, <2>1 DEF ReadInv, RP!PaneAgrees, RP!Reading, RP!Loading, RP!StillWanted
  <2> QED BY <1>1, <1>2, <2>1, <2>2, AskedStays
<1> QED BY <1>3, <1>4

LEMMA ConnectionStays ==
    ASSUME ReadInv, RP!Connection
    PROVE  ReadInv'
<1>1. UNCHANGED <<ctx, opened, checks, readingJobs, bodies, retries, heals, verdict, strayed, requests, serial>>
  BY DEF RP!Connection, RP!pane, RP!dkim
<1>2. RP!PaneAgrees'
  BY <1>1 DEF ReadInv, RP!PaneAgrees, RP!Reading, RP!Loading, RP!StillWanted
<1> QED BY <1>1, <1>2, AskedStays DEF ReadInv, ReadTypes

-----------------------------------------------------------------------------
(* A better copy, and what was established.                                 *)

\* What a step that moves neither row nor message keeps, put together.
LEMMA Assembled ==
    ASSUME ReadInv, WorldOK', JobsOK(readingJobs'), \A d \in RP!Contexts : ctx'[d].shown = ctx[d].shown /\ ctx'[d].uid = ctx[d].uid,
           UNCHANGED <<opened, requests, serial>>,
           bodies' \in [Read -> {"none", "stale", "wire"}],
           \A n \in Read : bodies[n] # "none" => bodies'[n] # "none",
           verdict' \in [Read -> {verdict'[n] : n \in Read}], strayed' \in BOOLEAN,
           \A h \in heals' : h.ctx \in RP!Contexts /\ h.reason \in {"dkim", "pgp"},
           CheckInv(RP!World', retries', heals', opened, strayed'), JobInv(RP!World', heals'), VerdictsOK'
    PROVE  ReadInv'
<1>1. ReadTypes'
  BY DEF ReadInv, ReadTypes
<1>2. Bodied'
  BY DEF ReadInv, Bodied, BodiedAt
<1>3. RP!PaneAgrees'
  BY DEF ReadInv, RP!PaneAgrees, RP!Reading, RP!Loading, RP!StillWanted, RP!Contexts
<1>4. Checked' /\ Jobbed'
  BY DEF Checked, Jobbed
<1> QED BY <1>1, <1>2, <1>3, <1>4 DEF ReadInv

\* A refetch that ends, or another one of gpg's, is evidence for nobody else.
LEMMA HealsKeep ==
    ASSUME NEW w, NEW R, NEW H, NEW G, NEW o, NEW s, CheckInv(w, R, H, o, s),
           \A c \in RP!Contexts : Settled(w.ctx[c]) /\ w.ctx[c].checking =>
             \A h \in H \ G : ~(h.ctx = c /\ h.uid = w.ctx[c].uid /\ h.reason = "dkim"),
           ~o => \A h \in G : h.ctx = "pane"
    PROVE  CheckInv(w, R, G, o, s)
<1>1. Evidence(w, R, G)
  BY DEF CheckInv, Evidence, EvidenceAt
<1>2. ~o => Unopened(w, R, G)
  BY DEF CheckInv, Unopened
<1> QED BY <1>1, <1>2 DEF CheckInv

\* A signature handed to gpg.
LEMMA SignKeeps ==
    ASSUME NEW w, IsWorld(w), JobsOK(w.jobs), NEW c \in RP!Contexts, NEW cached, NEW R, NEW H, NEW o, NEW s,
           CheckInv(w, R, H, o, s), Deciphering(w), Signing(w, H) \/ c = "pane"
    PROVE  /\ IsWorld(RP!StartJob(w, c, "verify", cached)) /\ JobsOK(RP!StartJob(w, c, "verify", cached).jobs)
           /\ \A d \in RP!Contexts : /\ RP!StartJob(w, c, "verify", cached).ctx[d].shown = w.ctx[d].shown
                                     /\ RP!StartJob(w, c, "verify", cached).ctx[d].uid = w.ctx[d].uid
           /\ CheckInv(RP!StartJob(w, c, "verify", cached), R, H, o, s)
           /\ JobInv(RP!StartJob(w, c, "verify", cached), H)
<1> DEFINE v == RP!StartJob(w, c, "verify", cached)
           n == NewJob(w, c, "verify")
<1>1. /\ IsWorld(v) /\ v.checks = w.checks /\ v.jobs = w.jobs \cup {n}
      /\ \A d \in RP!Contexts \ {c} : v.ctx[d] = w.ctx[d]
      /\ SameCheck(v.ctx[c], w.ctx[c]) /\ v.ctx[c].sigBusy
      /\ v.ctx[c].decrypt = w.ctx[c].decrypt
  <2> DEFINE kind == "verify"
  <2>1. kind = "verify"
    OBVIOUS
  <2>2. v = RP!StartJob(w, c, kind, cached) /\ n = NewJob(w, c, kind)
    OBVIOUS
  <2> HIDE DEF kind, v, n
  <2> DEFINE q == RP!StartJob(w, c, kind, cached)
             e == NewJob(w, c, kind)
  <2>3. /\ IsWorld(q) /\ q.checks = w.checks /\ q.jobs = w.jobs \cup {e}
        /\ \A d \in RP!Contexts \ {c} : q.ctx[d] = w.ctx[d]
        /\ SameCheck(q.ctx[c], w.ctx[c]) /\ q.ctx[c].sigBusy
    BY Engages
  <2>4. q.ctx[c].decrypt = IF kind = "decrypt" THEN e.id ELSE w.ctx[c].decrypt
    BY Engages
  <2> HIDE DEF q, e
  <2>5. q.ctx[c].decrypt = w.ctx[c].decrypt
    BY <2>1, <2>4
  <2> QED BY <2>2, <2>3, <2>5 DEF q, e
<1>2. n.kind = "verify" /\ n.waiting = {c} /\ JobsOK({n})
  BY DEF NewJob, JobsOK
<1> HIDE DEF v, n
<1>3. JobsOK(v.jobs)
  BY <1>1, <1>2 DEF JobsOK
<1>4. \A d \in RP!Contexts : v.ctx[d].shown = w.ctx[d].shown /\ v.ctx[d].uid = w.ctx[d].uid
  BY <1>1 DEF SameCheck
<1>5. CheckInv(v, R, H, o, s)
  <2>1. \A d \in RP!Contexts : Calm(v.ctx[d], w.ctx[d])
    BY <1>1 DEF SameCheck, Calm, Onward
  <2> QED BY <1>1, <2>1, CalmKeeps
<1>6. Deciphering(v)
  <2> DEFINE x == w.ctx["pane"]
             y == v.ctx["pane"]
  <2>1. y.shown = x.shown /\ y.decrypt = x.decrypt
    BY <1>1, <1>4 DEF RP!Contexts
  <2>2. x = w.ctx["pane"] /\ y = v.ctx["pane"]
    OBVIOUS
  <2> HIDE DEF x, y
  <2> QED BY <1>1, <2>1, <2>2 DEF Deciphering, Awaited
<1>7. Signing(v, H)
  <2>1. CASE c = "pane"
    <3>1. n \in v.jobs /\ Awaited(v.ctx["pane"], n)
      BY <1>1, <1>2, <2>1 DEF Awaited
    <3> QED BY <3>1 DEF Signing
  <2>2. CASE c # "pane"
    <3>1. v.ctx["pane"] = w.ctx["pane"] /\ w.jobs \subseteq v.jobs
      BY <1>1, <2>2 DEF RP!Contexts
    <3> QED BY <2>2, <3>1 DEF Signing
  <2> QED BY <2>1, <2>2
<1> QED BY <1>1, <1>3, <1>4, <1>5, <1>6, <1>7 DEF JobInv, v

\* The octets of a context are those that arrived, and nothing of it is checked.
LEMMA RefreshedKeeps ==
    ASSUME NEW w, IsWorld(w), NEW c \in RP!Contexts, NEW x, NEW R, NEW H, NEW o, NEW s, CheckInv(w, R, H, o, s),
           Shape(x), x.uid = w.ctx[c].uid, x.shown = w.ctx[c].shown, x.turn = w.ctx[c].turn, x.octets = "wire",
           x.checking = w.ctx[c].checking, ~s => \A k \in w.checks : k.ctx # c
    PROVE  CheckInv(WithCtx(w, c, x), R, H, o, s)
<1> DEFINE v == WithCtx(w, c, x)
<1>1. /\ v.ctx[c] = x /\ \A d \in RP!Contexts \ {c} : v.ctx[d] = w.ctx[d]
      /\ v.checks = w.checks
  BY CtxReplaced
<1> HIDE DEF v
<1>2. Evidence(v, R, H)
  <2>1. \A d \in RP!Contexts : /\ v.ctx[d].uid = w.ctx[d].uid /\ v.ctx[d].shown = w.ctx[d].shown
                               /\ v.ctx[d].checking = w.ctx[d].checking
    BY <1>1
  <2> QED BY <1>1, <2>1 DEF CheckInv, Evidence, EvidenceAt, Settled
<1>3. \A d \in RP!Contexts : v.ctx[d].turn = w.ctx[d].turn /\ v.ctx[d].shown = w.ctx[d].shown
  BY <1>1
<1>4. Turns(v, R)
  BY <1>1, <1>3 DEF CheckInv, Turns
<1>5. ~o => Unopened(v, R, H)
  BY <1>1, <1>3 DEF CheckInv, Unopened, RP!Contexts
<1>6. ASSUME ~s PROVE Origin(v, R)
  <2>1. Origin(w, R) /\ \A k \in w.checks \cup R : k.ctx \in RP!Contexts
    BY <1>6 DEF CheckInv, Turns
  <2>2. \A k \in v.checks : CheckOK(v, k)
    BY <1>1, <1>6, <2>1 DEF Origin, CheckOK, Own
  <2>3. \A k \in v.checks \cup R : OctetsOK(v, k)
    BY <1>1, <2>1 DEF Origin, OctetsOK, Own
  <2>4. \A d \in RP!Contexts : BadgeOK(v.ctx[d])
    BY <1>1, <2>1 DEF Origin, BadgeOK
  <2> QED BY <2>2, <2>3, <2>4 DEF Origin
<1> QED BY <1>2, <1>4, <1>5, <1>6 DEF CheckInv, v

\* More has gone astray: less is promised.
LEMMA AstrayKeeps ==
    ASSUME NEW w, NEW R, NEW H, NEW o, NEW s, NEW z, CheckInv(w, R, H, o, s), ~z => ~s
    PROVE  CheckInv(w, R, H, o, z)
BY DEF CheckInv

LEMMA RefetchedStays ==
    ASSUME ReadInv, NEW h \in heals, RP!Refetched(h)
    PROVE  ReadInv'
<1> DEFINE G == heals \ {h}
           c == h.ctx
           y == ctx[c]
           s == strayed'
<1>1. /\ heals' = G /\ UNCHANGED <<opened, requests, serial, retries, verdict>>
      /\ s = (strayed \/ (RP!Here(h) /\ \E k \in checks : k.ctx = c))
  BY DEF RP!Refetched
<1>2. /\ c \in RP!Contexts /\ h.reason \in {"dkim", "pgp"} /\ IsWorld(RP!World) /\ Shape(y)
      /\ RP!World.ctx[c] = y /\ JobsOK(RP!World.jobs)
  BY WorldIs DEF ReadInv, ReadTypes, WorldOK, IsWorld
<1>3. s \in BOOLEAN /\ (~s => ~strayed) /\ (~s /\ RP!Here(h) => \A k \in RP!World.checks : k.ctx # c)
  BY <1>1, WorldIs DEF ReadInv, ReadTypes
<1>4. VerdictsOK'
  BY <1>1, <1>3 DEF ReadInv, VerdictsOK
<1>5. \A g \in heals' : g.ctx \in RP!Contexts /\ g.reason \in {"dkim", "pgp"}
  BY <1>1 DEF ReadInv, ReadTypes
<1>6. verdict' \in [Read -> {verdict'[n] : n \in Read}]
  BY <1>1 DEF ReadInv, ReadTypes
<1>7. CheckInv(RP!World, retries, heals, opened, s) /\ JobInv(RP!World, heals)
  BY <1>3, AstrayKeeps DEF ReadInv, Checked, Jobbed
<1>8. ~opened => /\ c = "pane" /\ \A g \in G : g.ctx = "pane"
  BY <1>7 DEF CheckInv, Unopened
<1> HIDE DEF s
<1>9. CASE ~RP!Here(h)
  <2>1. UNCHANGED <<ctx, checks, readingJobs, bodies>>
    BY <1>9 DEF RP!Refetched
  <2>2. \A d \in RP!Contexts : Settled(RP!World.ctx[d]) => ~(h.ctx = d /\ h.uid = RP!World.ctx[d].uid)
    BY <1>9, WorldIs DEF RP!Here, RP!Reading, Settled
  <2>3. CheckInv(RP!World, retries, G, opened, s)
    BY <1>7, <1>8, <2>2, HealsKeep
  <2>4. JobInv(RP!World, G)
    <3>1. "pane" \in RP!Contexts
      BY DEF RP!Contexts
    <3> QED BY <1>7, <2>2, <3>1 DEF JobInv, Signing
  <2>5. RP!World' = RP!World /\ WorldOK' /\ JobsOK(readingJobs')
    BY <2>1 DEF RP!World, ReadInv, ReadTypes, WorldOK
  <2>6. /\ bodies' \in [Read -> {"none", "stale", "wire"}] /\ \A n \in Read : bodies[n] # "none" => bodies'[n] # "none"
    BY <2>1 DEF ReadInv, ReadTypes
  <2>7. CheckInv(RP!World', retries', heals', opened, s) /\ JobInv(RP!World', heals')
    BY <1>1, <2>3, <2>4, <2>5
  <2> QED BY <1>1, <1>3, <1>4, <1>5, <1>6, <2>1, <2>5, <2>6, <2>7, Assembled DEF s
<1>10. CASE RP!Here(h)
  <2> DEFINE x == [y EXCEPT !.octets = "wire"]
             w == [RP!World EXCEPT !.ctx[c].octets = "wire"]
  <2>1. w = WithCtx(RP!World, c, x)
    BY <1>2 DEF WithCtx
  <2>2. /\ Shape(x) /\ x.uid = y.uid /\ x.shown = y.shown /\ x.turn = y.turn /\ x.octets = "wire"
        /\ x.checking = y.checking /\ x.cached = y.cached /\ x.decrypt = y.decrypt /\ x.sigBusy = y.sigBusy
    <3> HIDE DEF y
    <3> QED BY <1>2 DEF Shape
  <2>3. /\ bodies' \in [Read -> {"none", "stale", "wire"}] /\ \A n \in Read : bodies[n] # "none" => bodies'[n] # "none"
    BY <1>10 DEF RP!Refetched, ReadInv, ReadTypes
  <2>4. RP!Commit(IF h.reason = "dkim" THEN RP!SubmitDkim([w EXCEPT !.ctx[c].cached = FALSE], c)
               ELSE RP!StartJob(w, c, "verify", FALSE))
    BY <1>10 DEF RP!Refetched
  <2> HIDE DEF x, w, c, y
  <2>5. ASSUME NEW v, IsWorld(v), JobsOK(v.jobs), RP!Commit(v), CheckInv(v, retries, G, opened, s), JobInv(v, G),
               \A d \in RP!Contexts : v.ctx[d].shown = ctx[d].shown /\ v.ctx[d].uid = ctx[d].uid
        PROVE  ReadInv'
    <3>1. RP!World' = v /\ WorldOK' /\ ctx' = v.ctx /\ readingJobs' = v.jobs
      BY <2>5, Committed DEF RP!Commit
    <3>2. CheckInv(RP!World', retries', heals', opened, s) /\ JobInv(RP!World', heals')
      BY <1>1, <2>5, <3>1
    <3>3. /\ JobsOK(readingJobs') /\ \A d \in RP!Contexts : ctx'[d].shown = ctx[d].shown /\ ctx'[d].uid = ctx[d].uid
      BY <2>5, <3>1
    <3> QED BY <1>1, <1>3, <1>4, <1>5, <1>6, <2>3, <3>1, <3>2, <3>3, Assembled DEF s
  <2>6. CASE h.reason = "dkim"
    <3> DEFINE z == [x EXCEPT !.cached = FALSE]
               u == WithCtx(RP!World, c, z)
    <3>1. [w EXCEPT !.ctx[c].cached = FALSE] = u
      <4>1. w.ctx[c] = x /\ w = [RP!World EXCEPT !.ctx = [RP!World.ctx EXCEPT ![c] = x]]
        BY <1>2, <2>1, <2>2, CtxReplaced DEF WithCtx
      <4> QED BY <1>2, <4>1 DEF WithCtx, IsWorld
    <3>2. /\ Shape(z) /\ z.uid = y.uid /\ z.shown = y.shown /\ z.turn = y.turn /\ z.octets = "wire"
          /\ z.checking = y.checking /\ z.decrypt = y.decrypt /\ z.sigBusy = y.sigBusy
      BY <2>2 DEF Shape
    <3> HIDE DEF z
    <3>3. /\ IsWorld(u) /\ u.ctx[c] = z /\ u.checks = RP!World.checks /\ u.jobs = RP!World.jobs
          /\ \A d \in RP!Contexts \ {c} : u.ctx[d] = RP!World.ctx[d]
      BY <1>2, <3>2, CtxReplaced
    <3>4. CheckInv(u, retries, heals, opened, s)
      BY <1>2, <1>3, <1>7, <1>10, <3>2, RefreshedKeeps
    <3> HIDE DEF u
    <3> DEFINE v == RP!SubmitDkim(u, c)
    <3>5. RP!Commit(v)
      BY <2>4, <2>6, <3>1
    <3>6. CheckInv(v, retries, G, opened, s)
      <4>1. ASSUME NEW d \in RP!Contexts \ {c} PROVE EvidenceAt(u, d, retries, G)
        <5>1. EvidenceAt(u, d, retries, heals)
          BY <3>4 DEF CheckInv, Evidence
        <5> QED BY <5>1 DEF EvidenceAt, c
      <4>2. Turns(u, retries) /\ (~opened => c = "pane" /\ Unopened(u, retries, G)) /\ (~s => Origin(u, retries))
        BY <1>8, <3>4 DEF CheckInv, Unopened
      <4>3. u.ctx[c].octets # "stale"
        BY <3>2, <3>3
      <4> HIDE DEF G
      <4> QED BY <1>2, <3>3, <4>1, <4>2, <4>3, SubmitKeeps
    <3>7. /\ IsWorld(v) /\ v.jobs = u.jobs /\ \A d \in RP!Contexts \ {c} : v.ctx[d] = u.ctx[d]
          /\ v.ctx[c] = [z EXCEPT !.checking = TRUE]
      BY <1>2, <3>3, Submits
    <3> HIDE DEF v
    <3>8. /\ v.ctx[c].uid = y.uid /\ v.ctx[c].shown = y.shown /\ v.ctx[c].decrypt = y.decrypt /\ v.ctx[c].sigBusy = y.sigBusy
      BY <3>2, <3>7, Checking DEF SameJob
    <3>9. \A d \in RP!Contexts : SameJob(v.ctx[d], RP!World.ctx[d])
      BY <1>2, <3>3, <3>7, <3>8 DEF SameJob
    <3>10. JobInv(v, G)
      <4>1. JobInv(RP!World, G)
        BY <1>7, <2>6 DEF JobInv, Signing
      <4>2. "pane" \in RP!Contexts /\ v.jobs = RP!World.jobs
        BY <3>3, <3>7 DEF RP!Contexts
      <4>3. CalmJob(v.ctx["pane"], RP!World.ctx["pane"])
        BY <3>9, <4>2 DEF CalmJob, SameJob, Onward
      <4> QED BY <4>1, <4>2, <4>3, CalmJobKeeps
    <3>11. \A d \in RP!Contexts : v.ctx[d].shown = ctx[d].shown /\ v.ctx[d].uid = ctx[d].uid
      BY <3>9, WorldIs DEF SameJob
    <3> QED BY <1>2, <2>5, <3>3, <3>5, <3>6, <3>7, <3>10, <3>11
  <2>7. CASE h.reason = "pgp"
    <3> DEFINE u == WithCtx(RP!World, c, x)
    <3>1. /\ IsWorld(u) /\ u.ctx[c] = x /\ u.checks = RP!World.checks /\ u.jobs = RP!World.jobs
          /\ \A d \in RP!Contexts \ {c} : u.ctx[d] = RP!World.ctx[d]
      BY <1>2, <2>2, CtxReplaced
    <3>2. CheckInv(u, retries, heals, opened, s)
      BY <1>2, <1>3, <1>7, <1>10, <2>2, RefreshedKeeps
    <3> HIDE DEF u
    <3>3. CheckInv(u, retries, G, opened, s)
      <4>1. \A g \in heals \ G : g.reason = "pgp"
        BY <2>7
      <4> QED BY <1>8, <3>2, <4>1, HealsKeep
    <3>4. \A d \in RP!Contexts : SameJob(u.ctx[d], RP!World.ctx[d])
      BY <1>2, <2>2, <3>1 DEF SameJob
    <3>5. Deciphering(u) /\ (Signing(u, G) \/ c = "pane")
      <4>1. SameJob(u.ctx["pane"], RP!World.ctx["pane"])
        BY <3>4 DEF RP!Contexts
      <4>2. JobInv(u, heals)
        <5>1. CalmJob(u.ctx["pane"], RP!World.ctx["pane"])
          BY <4>1 DEF CalmJob, SameJob, Onward
        <5> QED BY <1>7, <3>1, <5>1, CalmJobKeeps
      <4>3. ASSUME c # "pane" PROVE Signing(u, G)
        <5>1. \A g \in heals : g.ctx = "pane" => g \in G
          BY <4>3 DEF c
        <5> QED BY <4>2, <5>1 DEF JobInv, Signing
      <4> QED BY <4>2, <4>3 DEF JobInv
    <3> DEFINE no == FALSE
               v  == RP!StartJob(u, c, "verify", no)
    <3>6. RP!Commit(v)
      <4>1. w = u
        BY <2>1 DEF u
      <4> QED BY <2>4, <2>7, <4>1
    <3> HIDE DEF no
    <3>7. /\ IsWorld(v) /\ JobsOK(v.jobs) /\ \A d \in RP!Contexts : v.ctx[d].shown = u.ctx[d].shown /\ v.ctx[d].uid = u.ctx[d].uid
          /\ CheckInv(v, retries, G, opened, s) /\ JobInv(v, G)
      <4> HIDE DEF G
      <4>1. JobsOK(u.jobs) /\ IsWorld(u) /\ c \in RP!Contexts
        BY <1>2, <3>1
      <4>2. Deciphering(u) /\ (Signing(u, G) \/ c = "pane") /\ CheckInv(u, retries, G, opened, s)
        BY <3>3, <3>5
      <4> QED BY <4>1, <4>2, SignKeeps
    <3> HIDE DEF v
    <3>8. \A d \in RP!Contexts : v.ctx[d].shown = ctx[d].shown /\ v.ctx[d].uid = ctx[d].uid
      BY <3>4, <3>7, WorldIs DEF SameJob
    <3> QED BY <2>5, <3>6, <3>7, <3>8
  <2> QED BY <1>2, <2>6, <2>7
<1> QED BY <1>9, <1>10

LEMMA RefetchFailsStays ==
    ASSUME ReadInv, NEW h \in heals, RP!RefetchFails(h)
    PROVE  ReadInv'
<1> DEFINE G == heals \ {h}
           c == h.ctx
           y == ctx[c]
<1>1. /\ heals' = G /\ UNCHANGED <<opened, bodies, requests, serial, checks, retries, verdict, readingJobs, strayed>>
  BY DEF RP!RefetchFails, RP!fetch
<1>2. /\ c \in RP!Contexts /\ h.reason \in {"dkim", "pgp"} /\ IsWorld(RP!World) /\ Shape(y)
      /\ RP!World.ctx[c] = y
  BY WorldIs DEF ReadInv, ReadTypes, WorldOK, IsWorld
<1>3. CheckInv(RP!World, retries, heals, opened, strayed) /\ JobInv(RP!World, heals)
  BY DEF ReadInv, Checked, Jobbed
<1>4. ~opened => \A g \in G : g.ctx = "pane"
  BY <1>3 DEF CheckInv, Unopened
<1>5. /\ VerdictsOK' /\ \A g \in heals' : g.ctx \in RP!Contexts /\ g.reason \in {"dkim", "pgp"}
  BY <1>1 DEF ReadInv, ReadTypes, VerdictsOK
<1>6. /\ bodies' \in [Read -> {"none", "stale", "wire"}] /\ \A n \in Read : bodies[n] # "none" => bodies'[n] # "none"
      /\ verdict' \in [Read -> {verdict'[n] : n \in Read}] /\ strayed' \in BOOLEAN /\ JobsOK(readingJobs')
  BY <1>1 DEF ReadInv, ReadTypes
<1>7. CASE ~RP!Here(h)
  <2>1. UNCHANGED ctx
    BY <1>7 DEF RP!RefetchFails
  <2>2. \A d \in RP!Contexts : Settled(RP!World.ctx[d]) => ~(h.ctx = d /\ h.uid = RP!World.ctx[d].uid)
    BY <1>7, WorldIs DEF RP!Here, RP!Reading, Settled
  <2>3. CheckInv(RP!World, retries, G, opened, strayed)
    BY <1>3, <1>4, <2>2, HealsKeep
  <2>4. JobInv(RP!World, G)
    <3>1. "pane" \in RP!Contexts
      BY DEF RP!Contexts
    <3> QED BY <1>3, <2>2, <3>1 DEF JobInv, Signing
  <2>5. RP!World' = RP!World /\ WorldOK'
    BY <1>1, <2>1 DEF RP!World, ReadInv, ReadTypes, WorldOK
  <2>6. CheckInv(RP!World', retries', heals', opened, strayed') /\ JobInv(RP!World', heals')
    BY <1>1, <2>3, <2>4, <2>5
  <2> QED BY <1>1, <1>5, <1>6, <2>1, <2>5, <2>6, Assembled
<1>8. CASE RP!Here(h)
  <2> DEFINE x == RP!GaveUp(h, y)
  <2>1. ctx' = [ctx EXCEPT ![c] = x]
    BY <1>8 DEF RP!RefetchFails
  <2>2. /\ Shape(x) /\ x.uid = y.uid /\ x.shown = y.shown /\ x.turn = y.turn /\ x.octets = y.octets /\ x.cached = y.cached
        /\ x.decrypt = y.decrypt /\ (x.checking => y.checking) /\ (x.sigBusy => y.sigBusy)
        /\ (h.reason = "dkim" => ~x.checking) /\ (h.reason = "pgp" => ~x.sigBusy)
    <3>1. CASE h.reason = "dkim"
      <4> DEFINE x1 == [y EXCEPT !.dkim = "unverified"]
                 x2 == [x1 EXCEPT !.checking = FALSE]
      <4>1. x = x2
        <5> HIDE DEF y
        <5> QED BY <3>1 DEF RP!GaveUp
      <4> HIDE DEF y, x
      <4>2. /\ Shape(x1) /\ x1.uid = y.uid /\ x1.shown = y.shown /\ x1.turn = y.turn /\ x1.octets = y.octets
            /\ x1.cached = y.cached /\ x1.decrypt = y.decrypt /\ x1.sigBusy = y.sigBusy
        BY <1>2 DEF Shape
      <4> HIDE DEF x1
      <4>3. /\ Shape(x2) /\ x2.uid = x1.uid /\ x2.shown = x1.shown /\ x2.turn = x1.turn /\ x2.octets = x1.octets
            /\ x2.cached = x1.cached /\ x2.decrypt = x1.decrypt /\ x2.sigBusy = x1.sigBusy /\ ~x2.checking
        BY <4>2 DEF Shape
      <4> HIDE DEF x2
      <4> QED BY <3>1, <4>1, <4>2, <4>3
    <3>2. CASE h.reason = "pgp"
      <4> DEFINE e  == [y.sig EXCEPT !.status = "unverified"]
                 x1 == [y EXCEPT !.sig = e]
                 x2 == [x1 EXCEPT !.sigBusy = FALSE]
      <4>1. x = x2
        <5> HIDE DEF y
        <5> QED BY <3>2 DEF RP!GaveUp
      <4> HIDE DEF y, x, e
      <4>2. /\ Shape(x1) /\ x1.uid = y.uid /\ x1.shown = y.shown /\ x1.turn = y.turn /\ x1.octets = y.octets
            /\ x1.cached = y.cached /\ x1.decrypt = y.decrypt /\ x1.checking = y.checking
        BY <1>2 DEF Shape
      <4> HIDE DEF x1
      <4>3. /\ Shape(x2) /\ x2.uid = x1.uid /\ x2.shown = x1.shown /\ x2.turn = x1.turn /\ x2.octets = x1.octets
            /\ x2.cached = x1.cached /\ x2.decrypt = x1.decrypt /\ x2.checking = x1.checking /\ ~x2.sigBusy
        BY <4>2 DEF Shape
      <4> HIDE DEF x2
      <4> QED BY <3>2, <4>1, <4>2, <4>3
    <3> QED BY <1>2, <3>1, <3>2
  <2> HIDE DEF x
  <2>3. WorldOK' /\ ctx'[c] = x /\ \A d \in RP!Contexts \ {c} : ctx'[d] = ctx[d]
    BY <1>2, <2>1, <2>2, Written DEF ReadInv, ReadTypes
  <2> DEFINE v == RP!World'
  <2>4. v.ctx = ctx' /\ v.checks = RP!World.checks /\ v.jobs = RP!World.jobs /\ v.ctx[c] = x
        /\ \A d \in RP!Contexts \ {c} : v.ctx[d] = RP!World.ctx[d]
    BY <1>1, <2>3, WorldIs, WorldIsNext
  <2> HIDE DEF v
  <2>5. CheckInv(v, retries, G, opened, strayed)
    <3>1. Evidence(v, retries, G)
      <4>1. ASSUME NEW d \in RP!Contexts \ {c} PROVE EvidenceAt(v, d, retries, G)
        <5>1. EvidenceAt(RP!World, d, retries, heals)
          BY <1>3 DEF CheckInv, Evidence
        <5> QED BY <2>4, <5>1 DEF EvidenceAt
      <4>2. EvidenceAt(v, c, retries, G)
        <5>1. EvidenceAt(RP!World, c, retries, heals)
          BY <1>2, <1>3 DEF CheckInv, Evidence
        <5>2. h.reason = "pgp" => \A g \in heals \ G : g.reason # "dkim"
          OBVIOUS
        <5> HIDE DEF G, c, y
        <5> QED BY <1>2, <2>2, <2>4, <5>1, <5>2 DEF EvidenceAt, Settled
      <4> QED BY <4>1, <4>2 DEF Evidence
    <3>2. \A d \in RP!Contexts : /\ v.ctx[d].shown = RP!World.ctx[d].shown /\ v.ctx[d].turn = RP!World.ctx[d].turn
                                 /\ v.ctx[d].octets = RP!World.ctx[d].octets /\ v.ctx[d].cached = RP!World.ctx[d].cached
                                 /\ (v.ctx[d].checking => RP!World.ctx[d].checking)
      BY <1>2, <2>2, <2>4
    <3>3. Turns(v, retries)
      BY <1>3, <2>4, <3>2 DEF CheckInv, Turns
    <3>4. ~opened => Unopened(v, retries, G)
      BY <1>3, <2>4, <3>2 DEF CheckInv, Unopened, RP!Contexts
    <3>5. ASSUME ~strayed PROVE Origin(v, retries)
      <4>1. Origin(RP!World, retries) /\ \A k \in RP!World.checks \cup retries : k.ctx \in RP!Contexts
        BY <1>3, <3>5 DEF CheckInv, Turns
      <4>2. \A k \in v.checks : CheckOK(v, k)
        BY <2>4, <3>2, <4>1 DEF Origin, CheckOK, Own
      <4>3. \A k \in v.checks \cup retries : OctetsOK(v, k)
        BY <2>4, <3>2, <4>1 DEF Origin, OctetsOK, Own
      <4>4. \A d \in RP!Contexts : BadgeOK(v.ctx[d])
        BY <3>2, <4>1 DEF Origin, BadgeOK
      <4> QED BY <4>2, <4>3, <4>4 DEF Origin
    <3> QED BY <3>1, <3>3, <3>4, <3>5 DEF CheckInv
  <2>6. JobInv(v, G)
    <3> DEFINE p == RP!World.ctx["pane"]
               q == v.ctx["pane"]
    <3>1. /\ q.uid = p.uid /\ q.shown = p.shown /\ q.decrypt = p.decrypt /\ (q.sigBusy => p.sigBusy)
          /\ (q.sigBusy => ~(c = "pane" /\ h.reason = "pgp"))
      BY <1>2, <2>2, <2>4 DEF RP!Contexts
    <3>2. p = RP!World.ctx["pane"] /\ q = v.ctx["pane"] /\ v.jobs = RP!World.jobs
      BY <2>4
    <3>3. q.sigBusy => \A g \in heals : g.ctx = "pane" /\ g.reason = "pgp" => g \in G
      BY <3>1
    <3> HIDE DEF p, q, G
    <3>4. Deciphering(v)
      BY <1>3, <3>1, <3>2 DEF JobInv, Deciphering, Awaited
    <3>5. Signing(v, G)
      BY <1>3, <3>1, <3>2, <3>3 DEF JobInv, Signing, Settled, Awaited
    <3> QED BY <3>4, <3>5 DEF JobInv
  <2>7. CheckInv(RP!World', retries', heals', opened, strayed') /\ JobInv(RP!World', heals')
    BY <1>1, <2>5, <2>6 DEF v
  <2>8. \A d \in RP!Contexts : ctx'[d].shown = ctx[d].shown /\ ctx'[d].uid = ctx[d].uid
    BY <1>2, <2>2, <2>3
  <2> QED BY <1>1, <1>5, <1>6, <2>3, <2>7, <2>8, Assembled
<1> QED BY <1>7, <1>8

LEMMA RetryStays ==
    ASSUME ReadInv, NEW t \in retries, RP!DkimRetry(t)
    PROVE  ReadInv'
<1> DEFINE R == retries \ {t}
           c == t.ctx
           s == strayed'
           v == RP!SubmitDkim(RP!World, c)
<1>1. /\ retries' = R /\ UNCHANGED <<opened, bodies, requests, serial, heals, verdict>>
      /\ s = (strayed \/ (RP!Here(t) /\ t.turn # ctx[c].turn))
  BY DEF RP!DkimRetry, RP!fetch
<1>2. /\ CheckInv(RP!World, retries, heals, opened, strayed) /\ JobInv(RP!World, heals) /\ IsWorld(RP!World) /\ JobsOK(RP!World.jobs)
  BY WorldIs DEF ReadInv, ReadTypes, Checked, Jobbed, WorldOK
<1>3. s \in BOOLEAN /\ (~s => ~strayed) /\ c \in RP!Contexts
  BY <1>1, <1>2 DEF ReadInv, ReadTypes, CheckInv, Turns
<1>4. /\ VerdictsOK' /\ \A g \in heals' : g.ctx \in RP!Contexts /\ g.reason \in {"dkim", "pgp"}
  BY <1>1, <1>3 DEF ReadInv, ReadTypes, VerdictsOK
<1>5. /\ bodies' \in [Read -> {"none", "stale", "wire"}] /\ \A n \in Read : bodies[n] # "none" => bodies'[n] # "none"
      /\ verdict' \in [Read -> {verdict'[n] : n \in Read}]
  BY <1>1 DEF ReadInv, ReadTypes
<1>6. CASE RP!Here(t)
  <2>1. RP!Commit(v)
    BY <1>6 DEF RP!DkimRetry
  <2>2. ~s => /\ Origin(RP!World, R)
              /\ RP!World.ctx[c].shown # 0 /\ ~RP!World.ctx[c].cached => RP!World.ctx[c].octets # "stale"
    <3>1. SUFFICES ASSUME ~s
                   PROVE  /\ Origin(RP!World, R)
                          /\ RP!World.ctx[c].shown # 0 /\ ~RP!World.ctx[c].cached => RP!World.ctx[c].octets # "stale"
      OBVIOUS
    <3>2. Origin(RP!World, retries) /\ t.turn = RP!World.ctx[c].turn
      BY <1>1, <1>2, <1>3, <1>6, <3>1, WorldIs DEF CheckInv
    <3>3. OctetsOK(RP!World, t)
      BY <3>2 DEF Origin
    <3> QED BY <3>2, <3>3 DEF Origin, OctetsOK, Own
  <2>3. Turns(RP!World, R) /\ (~opened => c = "pane" /\ Unopened(RP!World, R, heals))
    BY <1>2 DEF CheckInv, Turns, Unopened
  <2>4. ASSUME NEW d \in RP!Contexts \ {c} PROVE EvidenceAt(RP!World, d, R, heals)
    <3>1. EvidenceAt(RP!World, d, retries, heals)
      BY <1>2 DEF CheckInv, Evidence
    <3> QED BY <3>1 DEF EvidenceAt
  <2>5. CheckInv(v, R, heals, opened, s)
    <3> HIDE DEF R, c, s
    <3> QED BY <1>2, <1>3, <2>2, <2>3, <2>4, SubmitKeeps
  <2>6. /\ IsWorld(v) /\ v.jobs = RP!World.jobs /\ \A d \in RP!Contexts \ {c} : v.ctx[d] = RP!World.ctx[d]
        /\ v.ctx[c] = [RP!World.ctx[c] EXCEPT !.checking = TRUE]
    BY <1>2, <1>3, Submits
  <2> HIDE DEF v, c, R, s
  <2>7. \A d \in RP!Contexts : SameJob(v.ctx[d], RP!World.ctx[d])
    <3>1. Shape(RP!World.ctx[c])
      BY <1>2, <1>3 DEF IsWorld
    <3>2. SameJob(v.ctx[c], RP!World.ctx[c])
      BY <2>6, <3>1, Checking
    <3> QED BY <2>6, <3>2 DEF SameJob
  <2>8. JobInv(v, heals)
    <3>1. CalmJob(v.ctx["pane"], RP!World.ctx["pane"])
      BY <2>7 DEF CalmJob, SameJob, Onward, RP!Contexts
    <3> QED BY <1>2, <2>6, <3>1, CalmJobKeeps
  <2>9. RP!World' = v /\ WorldOK' /\ ctx' = v.ctx /\ readingJobs' = v.jobs
    BY <2>1, <2>6, Committed DEF RP!Commit
  <2>10. CheckInv(RP!World', retries', heals', opened, strayed') /\ JobInv(RP!World', heals')
    BY <1>1, <2>5, <2>8, <2>9 DEF s
  <2>11. /\ JobsOK(readingJobs') /\ \A d \in RP!Contexts : ctx'[d].shown = ctx[d].shown /\ ctx'[d].uid = ctx[d].uid
    BY <1>2, <2>6, <2>7, <2>9, WorldIs DEF SameJob
  <2> QED BY <1>1, <1>3, <1>4, <1>5, <2>9, <2>10, <2>11, Assembled DEF s
<1>7. CASE ~RP!Here(t)
  <2>1. UNCHANGED <<ctx, checks, readingJobs>>
    BY <1>7 DEF RP!DkimRetry
  <2>2. \A d \in RP!Contexts : Settled(RP!World.ctx[d]) => ~(t.ctx = d /\ t.uid = RP!World.ctx[d].uid)
    BY <1>7, WorldIs DEF RP!Here, RP!Reading, Settled
  <2>3. CheckInv(RP!World, R, heals, opened, s)
    <3>1. Evidence(RP!World, R, heals)
      BY <1>2, <2>2 DEF CheckInv, Evidence, EvidenceAt
    <3>2. Turns(RP!World, R) /\ (~opened => Unopened(RP!World, R, heals)) /\ (~s => Origin(RP!World, R))
      BY <1>2, <1>3 DEF CheckInv, Turns, Unopened, Origin
    <3> QED BY <3>1, <3>2 DEF CheckInv
  <2>4. RP!World' = RP!World /\ WorldOK' /\ JobsOK(readingJobs')
    BY <2>1 DEF RP!World, ReadInv, ReadTypes, WorldOK
  <2>5. CheckInv(RP!World', retries', heals', opened, strayed') /\ JobInv(RP!World', heals')
    BY <1>1, <1>2, <2>3, <2>4
  <2> QED BY <1>1, <1>3, <1>4, <1>5, <2>1, <2>4, <2>5, Assembled
<1> QED BY <1>6, <1>7

LEMMA DkimResultStays ==
    ASSUME RP!ReadingPaneAssumption, ReadInv, NEW k \in checks, NEW res, RP!ApplyDkimResult(k, res)
    PROVE  ReadInv'
<1> DEFINE c == k.ctx
           y == ctx[c]
           s == strayed'
           K == checks \ {k}
           status == RP!Word(res, y.cached)
           again == res = "temperror" /\ y.tries < Retries
<1>1. /\ checks' = K /\ res \in RP!Results(k) /\ UNCHANGED <<opened, bodies, requests, serial, readingJobs>>
      /\ s = (strayed \/ (k.turn # y.turn) \/ y.uid # y.shown)
  BY DEF RP!ApplyDkimResult, RP!fetch
<1>2. /\ CheckInv(RP!World, retries, heals, opened, strayed) /\ JobInv(RP!World, heals) /\ IsWorld(RP!World) /\ JobsOK(RP!World.jobs)
  BY WorldIs DEF ReadInv, ReadTypes, Checked, Jobbed, WorldOK
<1>3. /\ s \in BOOLEAN /\ (~s => ~strayed) /\ c \in RP!Contexts /\ Shape(y) /\ RP!World.ctx[c] = y /\ RP!World.checks = checks
  BY <1>1, <1>2, WorldIs DEF ReadInv, ReadTypes, CheckInv, Turns, IsWorld
<1>4. /\ bodies' \in [Read -> {"none", "stale", "wire"}] /\ \A n \in Read : bodies[n] # "none" => bodies'[n] # "none"
      /\ JobsOK(readingJobs')
  BY <1>1 DEF ReadInv, ReadTypes
<1>5. ~s /\ y.shown # 0 => Own(RP!World, k) /\ CheckOK(RP!World, k) /\ OctetsOK(RP!World, k)
  BY <1>1, <1>2, <1>3 DEF CheckInv, Origin, Own
\* A context that is asked for or told off, with what is still under way.
<1>6. ASSUME NEW x, Shape(x), ctx' = [ctx EXCEPT ![c] = x], NEW R, NEW H, retries' = R, heals' = H,
             x.uid = y.uid, x.shown = y.shown, x.turn = y.turn, x.octets = y.octets, x.cached = y.cached,
             x.decrypt = y.decrypt, x.sigBusy = y.sigBusy,
             x.checking => \/ \E t \in R : t.ctx = c /\ t.uid = y.uid
                           \/ \E h \in H : h.ctx = c /\ h.uid = y.uid /\ h.reason = "dkim",
             ~s => BadgeOK(x),
             retries \subseteq R, \A t \in R \ retries : t.ctx = c /\ t.turn = y.turn,
             heals \subseteq H, \A h \in H \ heals : h.ctx = c /\ h.reason = "dkim",
             verdict' \in [Read -> {verdict'[n] : n \in Read}], VerdictsOK'
      PROVE  ReadInv'
  <2>1. WorldOK' /\ ctx'[c] = x /\ \A d \in RP!Contexts \ {c} : ctx'[d] = ctx[d]
    BY <1>3, <1>6, Written DEF ReadInv, ReadTypes
  <2> DEFINE v == RP!World'
  <2>2. v.ctx = ctx' /\ v.checks = K /\ v.jobs = RP!World.jobs /\ v.ctx[c] = x
        /\ \A d \in RP!Contexts \ {c} : v.ctx[d] = RP!World.ctx[d]
    BY <1>1, <2>1, WorldIs, WorldIsNext
  <2> HIDE DEF v
  <2>3. \A d \in RP!Contexts : /\ v.ctx[d].shown = RP!World.ctx[d].shown /\ v.ctx[d].turn = RP!World.ctx[d].turn
                               /\ v.ctx[d].octets = RP!World.ctx[d].octets /\ v.ctx[d].cached = RP!World.ctx[d].cached
                               /\ v.ctx[d].uid = RP!World.ctx[d].uid
                               /\ v.ctx[d].decrypt = RP!World.ctx[d].decrypt /\ v.ctx[d].sigBusy = RP!World.ctx[d].sigBusy
    BY <1>3, <1>6, <2>2
  <2>4. Evidence(v, R, H)
    <3>1. ASSUME NEW d \in RP!Contexts \ {c} PROVE EvidenceAt(v, d, R, H)
      <4>1. EvidenceAt(RP!World, d, retries, heals)
        BY <1>2 DEF CheckInv, Evidence
      <4>2. \A j \in checks : j.ctx = d => j \in K
        OBVIOUS
      <4> QED BY <1>3, <1>6, <2>2, <4>1, <4>2 DEF EvidenceAt
    <3>2. EvidenceAt(v, c, R, H)
      BY <1>6, <2>2 DEF EvidenceAt
    <3> QED BY <3>1, <3>2 DEF Evidence
  <2>5. Turns(v, R)
    <3>1. ASSUME NEW j \in K \cup R PROVE j.ctx \in RP!Contexts /\ j.turn \in Nat /\ j.turn <= v.ctx[j.ctx].turn
      <4>1. CASE j \in checks \cup retries
        BY <1>2, <1>3, <2>3, <4>1 DEF CheckInv, Turns
      <4>2. CASE j \in R \ retries
        <5>1. j.ctx = c /\ j.turn = y.turn /\ y.turn \in Nat /\ v.ctx[c].turn = y.turn
          BY <1>3, <1>6, <2>3, <4>2 DEF Shape
        <5> QED BY <1>3, <5>1
      <4> QED BY <4>1, <4>2
    <3> QED BY <2>2, <3>1 DEF Turns
  <2>6. ASSUME ~opened PROVE Unopened(v, R, H)
    <3>1. Unopened(RP!World, retries, heals) /\ c = "pane"
      BY <1>2, <1>3, <2>6 DEF CheckInv, Unopened
    <3>2. \A j \in K \cup R \cup H : j.ctx = "pane"
      BY <1>3, <1>6, <3>1 DEF Unopened
    <3> QED BY <2>2, <2>3, <3>1, <3>2 DEF Unopened, RP!Contexts
  <2>7. ASSUME ~s PROVE Origin(v, R)
    <3>1. Origin(RP!World, retries) /\ \A j \in checks \cup retries : j.ctx \in RP!Contexts
      BY <1>2, <1>3, <2>7 DEF CheckInv, Turns
    <3>2. \A j \in v.checks : CheckOK(v, j)
      BY <1>3, <2>2, <2>3, <3>1 DEF Origin, CheckOK, Own
    <3>3. ASSUME NEW j \in K \cup R PROVE OctetsOK(v, j)
      <4>1. CASE j \in checks \cup retries
        BY <1>3, <2>3, <3>1, <4>1 DEF Origin, OctetsOK, Own
      <4>2. CASE j \in R \ retries
        BY <1>3, <1>5, <1>6, <2>3, <2>7, <4>2 DEF OctetsOK, Own
      <4> QED BY <4>1, <4>2
    <3>4. \A d \in RP!Contexts : BadgeOK(v.ctx[d])
      BY <1>6, <2>2, <2>7, <3>1 DEF Origin
    <3> QED BY <2>2, <3>2, <3>3, <3>4 DEF Origin
  <2>8. CheckInv(v, R, H, opened, s)
    BY <2>4, <2>5, <2>6, <2>7 DEF CheckInv
  <2>9. JobInv(v, H)
    <3>1. JobInv(RP!World, H)
      BY <1>2, <1>6 DEF JobInv, Signing
    <3>2. CalmJob(v.ctx["pane"], RP!World.ctx["pane"])
      BY <2>3 DEF CalmJob, Onward, RP!Contexts
    <3> QED BY <2>2, <3>1, <3>2, CalmJobKeeps
  <2>10. CheckInv(RP!World', retries', heals', opened, s) /\ JobInv(RP!World', heals')
    BY <1>6, <2>8, <2>9 DEF v
  <2>11. \A h \in heals' : h.ctx \in RP!Contexts /\ h.reason \in {"dkim", "pgp"}
    BY <1>3, <1>6 DEF ReadInv, ReadTypes
  <2>12. \A d \in RP!Contexts : ctx'[d].shown = ctx[d].shown /\ ctx'[d].uid = ctx[d].uid
    BY <1>3, <1>6, <2>1
  <2> QED BY <1>1, <1>3, <1>4, <1>6, <2>1, <2>10, <2>11, <2>12, Assembled DEF s
<1>7. CASE res \in {"fail", "mismatch"} /\ y.cached /\ RP!CanHeal(c)
  <2> DEFINE x == [y EXCEPT !.checking = TRUE]
             h == [ctx |-> c, uid |-> y.uid, reason |-> "dkim"]
             H == heals \cup {h}
  <2>1. /\ ctx' = [ctx EXCEPT ![c] = x] /\ retries' = retries /\ heals' = H /\ verdict' = verdict
    BY <1>7 DEF RP!ApplyDkimResult, RP!Heal
  <2>2. /\ Shape(x) /\ SameJob(x, y) /\ x.turn = y.turn /\ x.octets = y.octets /\ x.cached = y.cached
    <3> HIDE DEF y
    <3> QED BY <1>3, Checking
  <2>3. h.ctx = c /\ h.uid = y.uid /\ h.reason = "dkim"
    OBVIOUS
  <2> HIDE DEF x, h, c, y, s
  <2>4. BadgeOK(x)
    BY <1>7, <2>2 DEF BadgeOK
  <2>5. /\ verdict' \in [Read -> {verdict'[n] : n \in Read}] /\ VerdictsOK'
    BY <1>3, <2>1 DEF ReadInv, ReadTypes, VerdictsOK, s
  <2>6. \E g \in H : g.ctx = c /\ g.uid = y.uid /\ g.reason = "dkim"
    BY <2>3
  <2>7. heals \subseteq H /\ \A g \in H \ heals : g.ctx = c /\ g.reason = "dkim"
    BY <2>3
  <2> HIDE DEF H
  <2>8. x.uid = y.uid /\ x.shown = y.shown /\ x.decrypt = y.decrypt /\ x.sigBusy = y.sigBusy
    BY <2>2 DEF SameJob
  <2> QED BY <1>6, <2>1, <2>2, <2>4, <2>5, <2>6, <2>7, <2>8
<1>8. CASE ~(res \in {"fail", "mismatch"} /\ y.cached /\ RP!CanHeal(c))
  <2> DEFINE n  == IF again THEN y.tries + 1 ELSE y.tries
             x1 == [y EXCEPT !.dkim = status]
             x2 == [x1 EXCEPT !.checking = again]
             x3 == [x2 EXCEPT !.tries = n]
             t  == [ctx |-> c, uid |-> y.uid, turn |-> y.turn]
             R  == IF again THEN retries \cup {t} ELSE retries
  <2>1. /\ ctx' = [ctx EXCEPT ![c].dkim = status, ![c].checking = again,
                              ![c].tries = IF again THEN @ + 1 ELSE @]
        /\ retries' = R /\ heals' = heals
        /\ verdict' = (IF y.uid # 0 /\ RP!Keeps(y, status)
                       THEN [verdict EXCEPT ![y.uid] = [status |-> status, of |-> k.of]] ELSE verdict)
    BY <1>8 DEF RP!ApplyDkimResult
  <2>2. ctx' = [ctx EXCEPT ![c] = x3]
    <3>1. ctx \in [RP!Contexts -> {ctx[d] : d \in RP!Contexts}]
      BY <1>2, WorldIs DEF IsWorld
    <3> HIDE DEF again, status
    <3> QED BY <1>3, <2>1, <3>1
  <2>3. /\ Shape(x3) /\ SameJob(x3, y) /\ x3.turn = y.turn /\ x3.octets = y.octets /\ x3.cached = y.cached
        /\ x3.checking = again
    <3> DEFINE b == again
    <3>0. b \in BOOLEAN
      OBVIOUS
    <3> HIDE DEF y, n, status, b
    <3>1. /\ Shape(x1) /\ SameJob(x1, y) /\ x1.turn = y.turn /\ x1.octets = y.octets /\ x1.cached = y.cached
      BY <1>3 DEF Shape, SameJob
    <3> HIDE DEF x1
    <3> DEFINE z == [x1 EXCEPT !.checking = b]
    <3>2. /\ Shape(z) /\ SameJob(z, x1) /\ z.turn = x1.turn /\ z.octets = x1.octets /\ z.cached = x1.cached
          /\ z.checking = b
      BY <3>0, <3>1 DEF Shape, SameJob
    <3> HIDE DEF z
    <3> DEFINE u == [z EXCEPT !.tries = n]
    <3>3. /\ Shape(u) /\ SameJob(u, z) /\ u.turn = z.turn /\ u.octets = z.octets /\ u.cached = z.cached
          /\ u.checking = z.checking
      BY <3>2 DEF Shape, SameJob
    <3>4. u = x3
      BY DEF z, b
    <3> HIDE DEF u
    <3> QED BY <3>1, <3>2, <3>3, <3>4 DEF SameJob, b
  <2> HIDE DEF x3
  <2>4. t.ctx = c /\ t.uid = y.uid /\ t.turn = y.turn
    OBVIOUS
  <2> HIDE DEF t, n, c, y, s
  <2>5. ~s => BadgeOK(x3)
    <3>1. SUFFICES ASSUME ~s, x3.shown # 0, x3.checking, ~x3.cached
                   PROVE  x3.octets # "stale"
      BY DEF BadgeOK
    <3>2. y.shown # 0 /\ ~y.cached
      BY <2>3, <3>1 DEF SameJob
    <3>3. RP!World.ctx[k.ctx].octets # "stale"
      BY <1>3, <1>5, <3>1, <3>2 DEF OctetsOK, c
    <3> QED BY <1>3, <2>3, <3>3 DEF c
  <2>6. verdict' \in [Read -> {verdict'[m] : m \in Read}]
    BY <2>1 DEF ReadInv, ReadTypes
  <2>7. VerdictsOK'
    <3>1. CASE ~(y.uid # 0 /\ RP!Keeps(y, status))
      <4>1. verdict' = verdict
        BY <2>1, <3>1
      <4> QED BY <1>3, <4>1 DEF ReadInv, VerdictsOK, s
    <3>2. CASE y.uid # 0 /\ RP!Keeps(y, status)
      <4> DEFINE e == [status |-> status, of |-> k.of]
      <4>1. e.status = status /\ e.of = k.of /\ verdict' = [verdict EXCEPT ![y.uid] = e]
        BY <2>1, <3>2
      <4> HIDE DEF e
      <4>2. ASSUME ~s PROVE k.of = y.uid /\ (status \in {"fail", "modified"} => k.of \in Altered)
        <5>1. y.uid = y.shown /\ y.shown # 0
          BY <1>1, <3>2, <4>2
        <5>2. k.of = y.shown /\ (~y.cached => k.octets # "stale")
          BY <1>3, <1>5, <4>2, <5>1 DEF CheckOK, c
        <5>3. ASSUME status \in {"fail", "modified"} PROVE k.of \in Altered
          <6>1. ~y.cached
            BY <3>2, <5>3 DEF RP!Keeps, RP!Earned
          <6>2. res \in {"fail", "mismatch"}
            BY <1>1, <5>3 DEF RP!Word, RP!Results
          <6> QED BY <1>1, <5>2, <6>1, <6>2 DEF RP!Results
        <5> QED BY <5>1, <5>2, <5>3
      <4> HIDE DEF status
      <4>3. \A m \in Read : verdict'[m] = IF m = y.uid THEN e ELSE verdict[m]
        BY <4>1 DEF ReadInv, ReadTypes
      <4> QED BY <1>3, <4>1, <4>2, <4>3 DEF ReadInv, VerdictsOK, s
    <3> QED BY <3>1, <3>2
  <2>8. x3.uid = y.uid /\ x3.shown = y.shown /\ x3.decrypt = y.decrypt /\ x3.sigBusy = y.sigBusy
    BY <2>3 DEF SameJob
  <2>9. /\ retries \subseteq R /\ \A u \in R \ retries : u.ctx = c /\ u.turn = y.turn
        /\ x3.checking => \E u \in R : u.ctx = c /\ u.uid = y.uid
    <3> HIDE DEF again
    <3> QED BY <2>3, <2>4
  <2> HIDE DEF R
  <2>10. ctx' = [ctx EXCEPT ![c] = x3] /\ retries' = R
    BY <2>1, <2>2
  <2> HIDE DEF again, status
  <2> QED BY <1>6, <2>1, <2>3, <2>5, <2>6, <2>7, <2>8, <2>9, <2>10
<1> QED BY <1>7, <1>8

LEMMA VerificationStays ==
    ASSUME ReadInv, NEW j \in readingJobs, NEW v, RP!ApplyVerification(j, v)
    PROVE  ReadInv'
<1> DEFINE healing == {c \in j.waiting : /\ v = "notverified" /\ RP!Reading(c) /\ ctx[c].sigCached /\ RP!CanHeal(c)}
           word(c) == IF v # "notverified" THEN v ELSE IF ctx[c].sigCached THEN "unverified" ELSE "modified"
           new == {[ctx |-> c, uid |-> ctx[c].uid, reason |-> "pgp"] : c \in healing}
           G == heals \cup new
           w == RP!World'
<1>1. /\ j.kind = "verify" /\ readingJobs' = readingJobs \ {j} /\ heals' = G
      /\ UNCHANGED <<opened, bodies, requests, serial, checks, retries, verdict, strayed>>
      /\ ctx' = [c \in RP!Contexts |->
                   IF c \notin j.waiting \/ ~RP!Reading(c) THEN ctx[c]
                   ELSE IF c \in healing THEN [ctx[c] EXCEPT !.verify = 0, !.sigBusy = TRUE]
                   ELSE [ctx[c] EXCEPT !.sig = [status |-> word(c), of |-> j.of], !.verify = 0,
                                          !.sigBusy = ctx[c].decrypt # 0]]
  BY DEF RP!ApplyVerification, RP!fetch
<1>2. /\ CheckInv(RP!World, retries, heals, opened, strayed) /\ JobInv(RP!World, heals) /\ IsWorld(RP!World) /\ JobsOK(RP!World.jobs)
      /\ j.waiting \subseteq RP!Contexts
  BY WorldIs DEF ReadInv, ReadTypes, Checked, Jobbed, WorldOK, JobsOK
<1>3. ASSUME NEW c \in RP!Contexts
      PROVE  /\ Shape(ctx'[c]) /\ SameCheck(ctx'[c], ctx[c]) /\ ctx'[c].decrypt = ctx[c].decrypt
             /\ \/ c \notin j.waiting /\ ctx'[c] = ctx[c]
                \/ ~RP!Reading(c) /\ ctx'[c] = ctx[c]
                \/ c \in healing
                \/ ctx'[c].sigBusy => ctx[c].decrypt # 0
  <2> DEFINE y == ctx[c]
             e == [status |-> word(c), of |-> j.of]
             b == y.decrypt # 0
             x1 == [y EXCEPT !.verify = 0]
             x2 == [x1 EXCEPT !.sigBusy = TRUE]
             z1 == [y EXCEPT !.sig = e]
             z2 == [z1 EXCEPT !.verify = 0]
             z3 == [z2 EXCEPT !.sigBusy = b]
  <2>1. Shape(y) /\ b \in BOOLEAN
    BY <1>2, WorldIs DEF IsWorld
  <2>2. ctx'[c] = IF c \notin j.waiting \/ ~RP!Reading(c) THEN y ELSE IF c \in healing THEN x2 ELSE z3
    <3> HIDE DEF healing, y, e, b
    <3>1. ctx'[c] = IF c \notin j.waiting \/ ~RP!Reading(c) THEN ctx[c]
                    ELSE IF c \in healing THEN [ctx[c] EXCEPT !.verify = 0, !.sigBusy = TRUE]
                    ELSE [ctx[c] EXCEPT !.sig = e, !.verify = 0, !.sigBusy = b]
      BY <1>1 DEF e, b, y
    <3> QED BY <3>1 DEF y
  <2>3. Shape(x2) /\ SameCheck(x2, y) /\ x2.decrypt = y.decrypt
    <3> HIDE DEF y
    <3>1. Shape(x1) /\ SameCheck(x1, y) /\ x1.decrypt = y.decrypt
      BY <2>1 DEF Shape, SameCheck
    <3> HIDE DEF x1
    <3>2. Shape(x2) /\ SameCheck(x2, x1) /\ x2.decrypt = x1.decrypt
      BY <3>1 DEF Shape, SameCheck
    <3> QED BY <3>1, <3>2 DEF SameCheck
  <2>4. Shape(z3) /\ SameCheck(z3, y) /\ z3.decrypt = y.decrypt /\ (z3.sigBusy => b)
    <3> HIDE DEF y, e, b
    <3>1. Shape(z1) /\ SameCheck(z1, y) /\ z1.decrypt = y.decrypt
      BY <2>1 DEF Shape, SameCheck
    <3> HIDE DEF z1
    <3>2. Shape(z2) /\ SameCheck(z2, z1) /\ z2.decrypt = z1.decrypt
      BY <3>1 DEF Shape, SameCheck
    <3> HIDE DEF z2
    <3>3. Shape(z3) /\ SameCheck(z3, z2) /\ z3.decrypt = z2.decrypt /\ (z3.sigBusy => b)
      BY <2>1, <3>2 DEF Shape, SameCheck
    <3> QED BY <3>1, <3>2, <3>3 DEF SameCheck
  <2>5. b => ctx[c].decrypt # 0
    OBVIOUS
  <2>6. y = ctx[c] /\ SameCheck(y, y)
    BY DEF SameCheck
  <2> HIDE DEF x2, z3, b, y, healing
  <2> QED BY <2>1, <2>2, <2>3, <2>4, <2>5, <2>6
<1>4. ctx' \in [RP!Contexts -> {ctx'[c] : c \in RP!Contexts}]
  BY <1>1
<1>5. WorldOK'
  <2>1. RP!World' \in [ctx : {ctx'}, checks : {checks'}, jobs : {readingJobs'}]
    BY DEF RP!World
  <2>2. IsWorld(RP!World')
    <3>1. \A c \in RP!Contexts : Shape(ctx'[c])
      BY <1>3
    <3> HIDE DEF w
    <3> QED BY <1>4, <2>1, <3>1, WorldIsNext DEF IsWorld
  <2> QED BY <2>2 DEF WorldOK
<1>6. \A h \in new : h.reason = "pgp" /\ h.ctx \in healing /\ h.uid = ctx[h.ctx].uid
  OBVIOUS
<1>7. \A c \in healing : \E h \in new : h.ctx = c /\ h.uid = ctx[c].uid /\ h.reason = "pgp"
  <2> TAKE c \in healing
  <2> DEFINE h == [ctx |-> c, uid |-> ctx[c].uid, reason |-> "pgp"]
  <2>1. h \in new /\ h.ctx = c /\ h.uid = ctx[c].uid /\ h.reason = "pgp"
    OBVIOUS
  <2> HIDE DEF h, new, healing
  <2> QED BY <2>1
<1>8. healing \subseteq j.waiting /\ \A c \in healing : RP!Reading(c)
  OBVIOUS
<1> HIDE DEF healing, new, word
<1>9. w.ctx = ctx' /\ w.checks = RP!World.checks /\ w.jobs = RP!World.jobs \ {j}
  BY <1>1, WorldIs, WorldIsNext
<1> HIDE DEF w
<1>10. CheckInv(w, retries, G, opened, strayed)
  <2>1. \A c \in RP!Contexts : Calm(w.ctx[c], RP!World.ctx[c])
    BY <1>3, <1>9, WorldIs DEF Calm, Onward, SameCheck
  <2>2. CheckInv(w, retries, heals, opened, strayed)
    BY <1>2, <1>9, <2>1, CalmKeeps
  <2>3. ~opened => \A h \in G : h.ctx = "pane"
    BY <1>2, <1>6, <1>8, WorldIs DEF CheckInv, Unopened, RP!Reading, RP!Contexts
  <2>4. heals \ G = {}
    OBVIOUS
  <2> HIDE DEF G
  <2> QED BY <2>2, <2>3, <2>4, HealsKeep
<1>11. JobInv(w, G)
  <2> DEFINE x == RP!World.ctx["pane"]
             y == w.ctx["pane"]
  <2>1. y.uid = x.uid /\ y.shown = x.shown /\ y.decrypt = x.decrypt
    BY <1>3, <1>9, WorldIs DEF SameCheck, RP!Contexts
  <2>2. \/ "pane" \notin j.waiting /\ y = x
        \/ x.shown = 0
        \/ "pane" \in healing
        \/ y.sigBusy => x.decrypt # 0
    BY <1>3, <1>9, WorldIs DEF RP!Reading, RP!Contexts
  <2>3. x = RP!World.ctx["pane"] /\ y = w.ctx["pane"] /\ x.uid = ctx["pane"].uid
    BY WorldIs
  <2> HIDE DEF x, y
  <2>4. Deciphering(w)
    <3>1. ASSUME y.shown # 0, y.decrypt # 0
          PROVE  \E i \in w.jobs : i.kind = "decrypt" /\ Awaited(y, i)
      <4>1. PICK i \in RP!World.jobs : i.kind = "decrypt" /\ Awaited(x, i)
        BY <1>2, <2>1, <2>3, <3>1 DEF JobInv, Deciphering
      <4>2. i \in w.jobs /\ Awaited(y, i)
        BY <1>1, <1>9, <2>1, <4>1 DEF Awaited
      <4> QED BY <4>1, <4>2
    <3> QED BY <2>3, <3>1 DEF Deciphering
  <2>5. ASSUME Settled(y), y.sigBusy
        PROVE  \/ \E i \in w.jobs : Awaited(y, i)
               \/ \E h \in G : h.ctx = "pane" /\ h.uid = y.uid /\ h.reason = "pgp"
    <3>1. CASE "pane" \notin j.waiting /\ y = x
      <4>1. \/ \E i \in RP!World.jobs : Awaited(x, i)
            \/ \E h \in heals : h.ctx = "pane" /\ h.uid = x.uid /\ h.reason = "pgp"
        BY <1>2, <2>3, <2>5, <3>1 DEF JobInv, Signing
      <4> QED BY <1>9, <3>1, <4>1 DEF Awaited
    <3>2. CASE x.shown = 0
      BY <2>1, <2>5, <3>2 DEF Settled
    <3>3. CASE "pane" \in healing
      BY <1>7, <2>1, <2>3, <3>3
    <3>4. CASE x.decrypt # 0
      BY <2>1, <2>3, <2>4, <2>5, <3>4 DEF Deciphering, Settled
    <3> QED BY <2>2, <2>5, <3>1, <3>2, <3>3, <3>4
  <2> QED BY <2>3, <2>4, <2>5 DEF JobInv, Signing
<1>12. CheckInv(RP!World', retries', heals', opened, strayed') /\ JobInv(RP!World', heals')
  BY <1>1, <1>10, <1>11 DEF w
<1>13. /\ VerdictsOK' /\ \A g \in heals' : g.ctx \in RP!Contexts /\ g.reason \in {"dkim", "pgp"}
  BY <1>1, <1>2, <1>6, <1>8 DEF ReadInv, ReadTypes, VerdictsOK
<1>14. /\ bodies' \in [Read -> {"none", "stale", "wire"}] /\ \A n \in Read : bodies[n] # "none" => bodies'[n] # "none"
       /\ verdict' \in [Read -> {verdict'[n] : n \in Read}] /\ strayed' \in BOOLEAN /\ JobsOK(readingJobs')
  BY <1>1 DEF ReadInv, ReadTypes, JobsOK
<1>15. \A c \in RP!Contexts : ctx'[c].shown = ctx[c].shown /\ ctx'[c].uid = ctx[c].uid
  BY <1>3 DEF SameCheck
<1> QED BY <1>1, <1>5, <1>12, <1>13, <1>14, <1>15, Assembled

LEMMA DecryptionStays ==
    ASSUME ReadInv, NEW j \in readingJobs, NEW inner, RP!ApplyDecryption(j, inner)
    PROVE  ReadInv'
<1> DEFINE now   == {c \in j.waiting : ctx[c].decrypt = j.id}
           plain == [ctx |-> [c \in RP!Contexts |-> IF c \in now THEN [ctx[c] EXCEPT !.decrypt = 0, !.sigBusy = FALSE]
                                                 ELSE ctx[c]],
                     checks |-> checks, jobs |-> readingJobs \ {j}]
           no == FALSE
           sign(w, c) == IF c \in now THEN RP!StartJob(w, c, "verify", no) ELSE w
           Fine(w) == /\ IsWorld(w) /\ JobsOK(w.jobs) /\ CheckInv(w, retries, heals, opened, strayed) /\ JobInv(w, heals)
                      /\ \A d \in RP!Contexts : w.ctx[d].shown = ctx[d].shown /\ w.ctx[d].uid = ctx[d].uid
<1>1. /\ j.kind = "decrypt" /\ UNCHANGED <<opened, bodies, requests, serial, retries, heals, verdict, strayed>>
      /\ RP!Commit(IF inner = "signed" THEN sign(sign(plain, "pane"), "window") ELSE plain)
  BY DEF RP!ApplyDecryption, RP!fetch
<1>2. /\ CheckInv(RP!World, retries, heals, opened, strayed) /\ JobInv(RP!World, heals) /\ IsWorld(RP!World) /\ JobsOK(RP!World.jobs)
  BY WorldIs DEF ReadInv, ReadTypes, Checked, Jobbed, WorldOK
<1> HIDE DEF no
<1>3. ASSUME NEW c \in RP!Contexts
      PROVE  /\ Shape(plain.ctx[c]) /\ SameCheck(plain.ctx[c], ctx[c])
             /\ \/ c \notin now /\ plain.ctx[c] = ctx[c]
                \/ plain.ctx[c].decrypt = 0 /\ ~plain.ctx[c].sigBusy
  <2> DEFINE y == ctx[c]
             x1 == [y EXCEPT !.decrypt = 0]
             x2 == [x1 EXCEPT !.sigBusy = FALSE]
  <2>1. Shape(y)
    BY <1>2, WorldIs DEF IsWorld
  <2>2. plain.ctx[c] = IF c \in now THEN x2 ELSE y
    <3> HIDE DEF now
    <3> QED OBVIOUS
  <2>3. Shape(x2) /\ SameCheck(x2, y) /\ x2.decrypt = 0 /\ ~x2.sigBusy
    <3> HIDE DEF y
    <3>1. Shape(x1) /\ SameCheck(x1, y) /\ x1.decrypt = 0
      BY <2>1 DEF Shape, SameCheck
    <3> HIDE DEF x1
    <3>2. Shape(x2) /\ SameCheck(x2, x1) /\ x2.decrypt = x1.decrypt /\ ~x2.sigBusy
      BY <3>1 DEF Shape, SameCheck
    <3> QED BY <3>1, <3>2 DEF SameCheck
  <2>4. y = ctx[c] /\ SameCheck(y, y)
    BY DEF SameCheck
  <2> HIDE DEF x2, y, plain, now
  <2> QED BY <2>1, <2>2, <2>3, <2>4
<1>4. /\ plain.checks = RP!World.checks /\ plain.jobs = RP!World.jobs \ {j}
      /\ plain \in [ctx : {plain.ctx}, checks : {plain.checks}, jobs : {plain.jobs}]
      /\ plain.ctx \in [RP!Contexts -> {plain.ctx[c] : c \in RP!Contexts}]
  <2> HIDE DEF now
  <2> QED BY WorldIs
<1>5. "pane" \in j.waiting /\ j.id = ctx["pane"].decrypt => "pane" \in now
  OBVIOUS
<1> HIDE DEF plain, now
<1>6. Fine(plain)
  <2>1. IsWorld(plain) /\ JobsOK(plain.jobs)
    BY <1>2, <1>3, <1>4 DEF IsWorld, JobsOK
  <2>2. \A d \in RP!Contexts : plain.ctx[d].shown = ctx[d].shown /\ plain.ctx[d].uid = ctx[d].uid
    BY <1>3 DEF SameCheck
  <2>3. CheckInv(plain, retries, heals, opened, strayed)
    <3>1. \A c \in RP!Contexts : Calm(plain.ctx[c], RP!World.ctx[c])
      BY <1>3, WorldIs DEF Calm, Onward, SameCheck
    <3> QED BY <1>2, <1>4, <3>1, CalmKeeps
  <2>4. JobInv(plain, heals)
    <3> DEFINE x == RP!World.ctx["pane"]
               y == plain.ctx["pane"]
    <3>1. \/ "pane" \notin now /\ y = x
          \/ y.decrypt = 0 /\ ~y.sigBusy
      BY <1>3, WorldIs DEF RP!Contexts
    <3>2. x = RP!World.ctx["pane"] /\ y = plain.ctx["pane"] /\ x = ctx["pane"]
      BY WorldIs
    <3> HIDE DEF x, y
    <3>3. CASE "pane" \notin now /\ y = x
      <4>1. \A i \in RP!World.jobs : Awaited(x, i) => i \in plain.jobs
        BY <1>1, <1>4, <1>5, <3>2, <3>3 DEF Awaited
      <4> QED BY <1>2, <3>2, <3>3, <4>1 DEF JobInv, Deciphering, Signing
    <3>4. CASE y.decrypt = 0 /\ ~y.sigBusy
      BY <3>2, <3>4 DEF JobInv, Deciphering, Signing
    <3> QED BY <3>1, <3>3, <3>4
  <2> QED BY <2>1, <2>2, <2>3, <2>4
<1>7. ASSUME NEW w, Fine(w), NEW c \in RP!Contexts
      PROVE  Fine(sign(w, c))
  <2>1. CASE c \in now
    <3> DEFINE v == RP!StartJob(w, c, "verify", no)
    <3>1. IsWorld(w) /\ JobsOK(w.jobs) /\ CheckInv(w, retries, heals, opened, strayed) /\ JobInv(w, heals)
          /\ Deciphering(w) /\ (Signing(w, heals) \/ c = "pane")
      BY <1>7 DEF JobInv
    <3>2. /\ IsWorld(v) /\ JobsOK(v.jobs) /\ \A d \in RP!Contexts : v.ctx[d].shown = w.ctx[d].shown /\ v.ctx[d].uid = w.ctx[d].uid
          /\ CheckInv(v, retries, heals, opened, strayed) /\ JobInv(v, heals)
      BY <3>1, SignKeeps
    <3>3. sign(w, c) = v
      BY <2>1
    <3> HIDE DEF v, sign
    <3> QED BY <1>7, <3>2, <3>3
  <2>2. CASE c \notin now
    <3>1. sign(w, c) = w
      BY <2>2
    <3> HIDE DEF sign, Fine
    <3> QED BY <1>7, <3>1
  <2> QED BY <2>1, <2>2
<1> DEFINE v == IF inner = "signed" THEN sign(sign(plain, "pane"), "window") ELSE plain
<1>8. Fine(v) /\ RP!Commit(v)
  <2>1. Fine(sign(plain, "pane"))
    <3> HIDE DEF sign, Fine
    <3> QED BY <1>6, <1>7 DEF RP!Contexts
  <2>2. Fine(sign(sign(plain, "pane"), "window"))
    <3> DEFINE u == sign(plain, "pane")
    <3>1. Fine(u)
      BY <2>1
    <3> HIDE DEF u, sign, Fine
    <3>2. Fine(sign(u, "window"))
      BY <1>7, <3>1 DEF RP!Contexts
    <3> QED BY <3>2 DEF u
  <2>3. RP!Commit(v)
    BY <1>1
  <2> HIDE DEF Fine, sign
  <2> QED BY <1>6, <2>2, <2>3
<1> HIDE DEF v
<1>9. RP!World' = v /\ WorldOK' /\ ctx' = v.ctx /\ readingJobs' = v.jobs
  BY <1>8, Committed DEF RP!Commit
<1>10. CheckInv(RP!World', retries', heals', opened, strayed') /\ JobInv(RP!World', heals')
  BY <1>1, <1>8, <1>9
<1>11. /\ JobsOK(readingJobs') /\ \A d \in RP!Contexts : ctx'[d].shown = ctx[d].shown /\ ctx'[d].uid = ctx[d].uid
  BY <1>8, <1>9
<1>12. /\ VerdictsOK' /\ \A g \in heals' : g.ctx \in RP!Contexts /\ g.reason \in {"dkim", "pgp"}
  BY <1>1 DEF ReadInv, ReadTypes, VerdictsOK
<1>13. /\ bodies' \in [Read -> {"none", "stale", "wire"}] /\ \A n \in Read : bodies[n] # "none" => bodies'[n] # "none"
       /\ verdict' \in [Read -> {verdict'[n] : n \in Read}] /\ strayed' \in BOOLEAN
  BY <1>1 DEF ReadInv, ReadTypes
<1> QED BY <1>1, <1>9, <1>10, <1>11, <1>12, <1>13, Assembled

LEMMA ReadStays ==
    ASSUME RP!ReadingPaneAssumption, ReadInv, [RP!Next]_(RP!vars)
    PROVE  ReadInv'
<1>1. CASE UNCHANGED RP!vars
  BY <1>1 DEF RP!vars, RP!pane, RP!fetch, RP!dkim, ReadInv, ReadTypes, WorldOK, RP!World, Bodied, BodiedAt, RP!PaneAgrees, RP!Reading,
              RP!Loading, RP!StillWanted, Checked, Jobbed, VerdictsOK
<1>2. CASE RP!Next
  BY <1>2, ClickStays, WindowStays, ArrivalStays, DeclinedStays, AskingAgainStays, FailureStays, ConnectionStays,
     RefetchedStays, RefetchFailsStays, DkimResultStays, RetryStays, VerificationStays, DecryptionStays DEF RP!Next
<1> QED BY <1>1, <1>2

LEMMA ReadMeans ==
    ASSUME ReadInv
    PROVE  RP!PaneAgrees /\ RP!ChecksEnd /\ RP!AccusationsAreEarned
<1>1. ASSUME NEW c \in RP!Contexts, RP!Reading(c), ctx[c].shown = ctx[c].uid
      PROVE  /\ ctx[c].checking => \/ \E k \in checks : k.ctx = c
                                   \/ \E t \in retries \cup heals : t.ctx = c /\ t.uid = ctx[c].uid
             /\ c = "pane" /\ ctx[c].sigBusy => \/ \E j \in readingJobs : c \in j.waiting
                                                \/ \E h \in heals : h.ctx = c /\ h.uid = ctx[c].uid
  <2>1. EvidenceAt(RP!World, c, retries, heals) /\ Settled(RP!World.ctx[c])
    BY <1>1, WorldIs DEF ReadInv, Checked, CheckInv, Evidence, Settled, RP!Reading
  <2>2. ctx[c].checking => \/ \E k \in checks : k.ctx = c
                           \/ \E t \in retries \cup heals : t.ctx = c /\ t.uid = ctx[c].uid
    BY <2>1, WorldIs DEF EvidenceAt
  <2>3. Signing(RP!World, heals)
    BY DEF ReadInv, Jobbed, JobInv
  <2>4. c = "pane" /\ ctx[c].sigBusy => \/ \E j \in readingJobs : c \in j.waiting
                                        \/ \E h \in heals : h.ctx = c /\ h.uid = ctx[c].uid
    BY <2>1, <2>3, WorldIs DEF Signing, Awaited
  <2> QED BY <2>2, <2>4
<1>2. RP!ChecksEnd
  BY <1>1 DEF RP!ChecksEnd
<1> QED BY <1>2 DEF ReadInv, VerdictsOK, RP!AccusationsAreEarned

(*****************************************************************************)
(* FO, the folders (FolderOps).  The name a queued change gives its folder   *)
(* is the one the operations queued before it lead the mail of that folder   *)
(* to, and mail is filed where the whole queue leads.                        *)
(*****************************************************************************)

LEMMA LeastOfNumbers ==
    ASSUME NEW T, T \subseteq Nat, T # {}
    PROVE  \E x \in T : \A y \in T : x <= y
<1>1. \E x \in T : \A y \in T : <<y, x>> \notin OpToRel(<, Nat)
  BY NatLessThanWellFounded, WFMin
<1>2. \A x, y \in Nat : <<y, x>> \notin OpToRel(<, Nat) => x <= y
  BY DEF OpToRel
<1> QED BY <1>1, <1>2

\* What FolderOps counts with is what FiniteSets defines.
LEMMA SameCounts ==
    \A S : FO!IsFiniteSet(S) = IsFiniteSet(S) /\ FO!Cardinality(S) = Cardinality(S)
<1>1. \A S : FO!IsFiniteSet(S) = IsFiniteSet(S)
  BY DEF FO!IsFiniteSet, IsFiniteSet
<1>2. \A S : FO!Cardinality(S) = Cardinality(S)
  BY DEF FO!Cardinality, Cardinality, FO!IsFiniteSet, IsFiniteSet
<1> QED BY <1>1, <1>2

\* A sequence, of whatever it is of; the name of a folder.
IsSeq(p) == \E S : p \in Seq(S)
IsName(p) == IsSeq(p) /\ p # <<>>

LEMMA SeqFacts ==
    ASSUME NEW p, IsSeq(p)
    PROVE  Len(p) \in Nat /\ DOMAIN p = 1 .. Len(p) /\ (p # <<>> <=> Len(p) > 0)
<1>1. PICK S : p \in Seq(S)
  BY DEF IsSeq
<1> QED BY <1>1

LEMMA SameSeq ==
    ASSUME NEW p, NEW q, IsSeq(p), IsSeq(q), Len(p) = Len(q), \A i \in 1 .. Len(p) : p[i] = q[i]
    PROVE  p = q
<1>1. PICK S : p \in Seq(S)
  BY DEF IsSeq
<1>2. PICK T : q \in Seq(T)
  BY DEF IsSeq
<1> QED BY <1>1, <1>2

LEMMA AppendFacts ==
    ASSUME NEW p, NEW e, IsSeq(p)
    PROVE  /\ IsSeq(Append(p, e)) /\ Len(Append(p, e)) = Len(p) + 1
           /\ \A i \in 1 .. Len(p) : Append(p, e)[i] = p[i]
           /\ Append(p, e)[Len(p) + 1] = e
<1>1. PICK S : p \in Seq(S)
  BY DEF IsSeq
<1>2. p \in Seq(S \cup {e})
  BY <1>1
<1>3. Append(p, e) \in Seq(S \cup {e})
  BY <1>2
<1> QED BY <1>1, <1>3 DEF IsSeq

LEMMA ConcatFacts ==
    ASSUME NEW p, NEW q, IsSeq(p), IsSeq(q)
    PROVE  /\ IsSeq(p \o q) /\ Len(p \o q) = Len(p) + Len(q)
           /\ \A i \in 1 .. Len(p) + Len(q) :
                (p \o q)[i] = IF i <= Len(p) THEN p[i] ELSE q[i - Len(p)]
<1>1. PICK S : p \in Seq(S)
  BY DEF IsSeq
<1>2. PICK T : q \in Seq(T)
  BY DEF IsSeq
<1>3. p \in Seq(S \cup T) /\ q \in Seq(S \cup T)
  BY <1>1, <1>2
<1>4. p \o q \in Seq(S \cup T)
  BY <1>3
<1> QED BY <1>1, <1>2, <1>4 DEF IsSeq

LEMMA SubSeqFacts ==
    ASSUME NEW p, NEW m \in Nat \ {0}, NEW n \in Nat, IsSeq(p), n <= Len(p), m <= n + 1
    PROVE  /\ IsSeq(SubSeq(p, m, n)) /\ Len(SubSeq(p, m, n)) = n + 1 - m
           /\ \A i \in 1 .. n + 1 - m : SubSeq(p, m, n)[i] = p[m + i - 1]
<1>1. PICK S : p \in Seq(S)
  BY DEF IsSeq
<1>2. SubSeq(p, m, n) \in Seq(S)
  BY <1>1
<1> QED BY <1>1, <1>2 DEF IsSeq

LEMMA TailFacts ==
    ASSUME NEW p, IsName(p)
    PROVE  /\ IsSeq(Tail(p)) /\ Len(Tail(p)) = Len(p) - 1 /\ Head(p) = p[1]
           /\ \A i \in 1 .. Len(p) - 1 : Tail(p)[i] = p[i + 1]
<1>1. PICK S : p \in Seq(S)
  BY DEF IsName, IsSeq
<1>2. Tail(p) \in Seq(S) /\ Len(p) > 0
  BY <1>1 DEF IsName
<1> QED BY <1>1, <1>2 DEF IsSeq

-----------------------------------------------------------------------------
LEMMA UnderIs ==
    ASSUME NEW p, NEW r, IsSeq(p), IsSeq(r)
    PROVE  FO!Under(p, r) <=> Len(r) <= Len(p) /\ \A i \in 1 .. Len(r) : p[i] = r[i]
<1>1. Len(p) \in Nat /\ Len(r) \in Nat
  BY SeqFacts
<1>2. CASE Len(r) <= Len(p)
  <2>1. /\ IsSeq(SubSeq(p, 1, Len(r))) /\ Len(SubSeq(p, 1, Len(r))) = Len(r)
        /\ \A i \in 1 .. Len(r) : SubSeq(p, 1, Len(r))[i] = p[i]
    BY <1>1, <1>2, SubSeqFacts
  <2>2. SubSeq(p, 1, Len(r)) = r <=> \A i \in 1 .. Len(r) : p[i] = r[i]
    BY <2>1, SameSeq
  <2> QED BY <1>2, <2>2 DEF FO!Under
<1>3. CASE ~(Len(r) <= Len(p))
  BY <1>3 DEF FO!Under
<1> QED BY <1>2, <1>3

\* What a re-key makes of a name below the folder re-keyed.
LEMMA RepathIs ==
    ASSUME NEW p, NEW f, NEW t, IsSeq(p), IsSeq(f), IsSeq(t), FO!Under(p, f)
    PROVE  /\ IsSeq(FO!Repath(p, f, t)) /\ Len(FO!Repath(p, f, t)) = Len(t) + Len(p) - Len(f)
           /\ \A i \in 1 .. Len(t) + Len(p) - Len(f) :
                FO!Repath(p, f, t)[i] = IF i <= Len(t) THEN t[i] ELSE p[i - Len(t) + Len(f)]
<1>1. Len(p) \in Nat /\ Len(f) \in Nat /\ Len(t) \in Nat
  BY SeqFacts
<1>2. Len(f) <= Len(p)
  BY UnderIs
<1> DEFINE u == SubSeq(p, Len(f) + 1, Len(p))
<1>3. /\ IsSeq(u) /\ Len(u) = Len(p) - Len(f)
      /\ \A i \in 1 .. Len(p) - Len(f) : u[i] = p[i + Len(f)]
  <2>1. /\ IsSeq(u) /\ Len(u) = Len(p) + 1 - (Len(f) + 1)
        /\ \A i \in 1 .. Len(p) + 1 - (Len(f) + 1) : u[i] = p[(Len(f) + 1) + i - 1]
    BY <1>1, <1>2, SubSeqFacts
  <2> QED BY <1>1, <2>1
<1>4. FO!Repath(p, f, t) = t \o u
  BY DEF FO!Repath
<1> HIDE DEF u
<1> DEFINE c == t \o u
<1>5. /\ IsSeq(c) /\ Len(c) = Len(t) + Len(u)
      /\ \A i \in 1 .. Len(t) + Len(u) : c[i] = IF i <= Len(t) THEN t[i] ELSE u[i - Len(t)]
  BY <1>3, ConcatFacts
<1>6. FO!Repath(p, f, t) = c
  BY <1>4 DEF c
<1> HIDE DEF c
<1>7. ASSUME NEW i \in 1 .. Len(t) + Len(p) - Len(f)
      PROVE  c[i] = IF i <= Len(t) THEN t[i] ELSE p[i - Len(t) + Len(f)]
  <2>1. CASE i <= Len(t)
    BY <1>1, <1>2, <1>3, <1>5, <2>1
  <2>2. CASE i > Len(t)
    <3>1. i - Len(t) \in 1 .. Len(p) - Len(f)
      BY <1>1, <1>2, <2>2
    <3>2. c[i] = u[i - Len(t)]
      BY <1>1, <1>2, <1>3, <1>5, <2>2
    <3>3. PICK k \in 1 .. Len(p) - Len(f) : k = i - Len(t)
      BY <3>1
    <3>4. u[k] = p[k + Len(f)]
      BY <1>3
    <3>5. k + Len(f) = i - Len(t) + Len(f)
      BY <3>3
    <3> QED BY <1>1, <2>2, <3>2, <3>3, <3>4, <3>5
  <2> QED BY <1>1, <2>1, <2>2
<1>8. Len(c) = Len(t) + Len(p) - Len(f)
  BY <1>1, <1>2, <1>3, <1>5
<1> QED BY <1>5, <1>6, <1>7, <1>8

\* A re-key is taken back by its opposite, where there was no other mail.
LEMMA RepathBack ==
    ASSUME NEW p, NEW f, NEW t, IsSeq(p), IsSeq(f), IsSeq(t), FO!Under(p, f) \/ ~FO!Under(p, t)
    PROVE  FO!Repath(FO!Repath(p, f, t), t, f) = p
<1>1. CASE ~FO!Under(p, f)
  BY <1>1 DEF FO!Repath
<1>2. CASE FO!Under(p, f)
  <2>1. Len(p) \in Nat /\ Len(f) \in Nat /\ Len(t) \in Nat /\ Len(f) <= Len(p) /\ \A i \in 1 .. Len(f) : p[i] = f[i]
    BY <1>2, SeqFacts, UnderIs
  <2>2. PICK x : x = FO!Repath(p, f, t)
    OBVIOUS
  <2>3. /\ IsSeq(x) /\ Len(x) = Len(t) + Len(p) - Len(f)
        /\ \A i \in 1 .. Len(t) + Len(p) - Len(f) : x[i] = IF i <= Len(t) THEN t[i] ELSE p[i - Len(t) + Len(f)]
    BY <1>2, <2>2, RepathIs
  <2>4. FO!Under(x, t)
    <3>1. Len(t) <= Len(x) /\ \A i \in 1 .. Len(t) : x[i] = t[i]
      BY <2>1, <2>3
    <3> QED BY <2>3, <3>1, UnderIs
  <2>5. PICK y : y = FO!Repath(x, t, f)
    OBVIOUS
  <2>6. /\ IsSeq(y) /\ Len(y) = Len(f) + Len(x) - Len(t)
        /\ \A i \in 1 .. Len(f) + Len(x) - Len(t) : y[i] = IF i <= Len(f) THEN f[i] ELSE x[i - Len(f) + Len(t)]
    BY <2>3, <2>4, <2>5, RepathIs
  <2>7. Len(y) = Len(p)
    BY <2>1, <2>3, <2>6
  <2>8. ASSUME NEW i \in 1 .. Len(p) PROVE y[i] = p[i]
    <3>1. CASE i <= Len(f)
      BY <2>1, <2>3, <2>6, <3>1
    <3>2. CASE i > Len(f)
      <4>1. y[i] = x[i - Len(f) + Len(t)]
        BY <2>1, <2>3, <2>6, <3>2
      <4>2. i - Len(f) + Len(t) \in 1 .. Len(t) + Len(p) - Len(f) /\ i - Len(f) + Len(t) > Len(t)
        BY <2>1, <3>2
      <4>3. x[i - Len(f) + Len(t)] = p[(i - Len(f) + Len(t)) - Len(t) + Len(f)]
        <5>1. PICK k \in 1 .. Len(t) + Len(p) - Len(f) : k = i - Len(f) + Len(t)
          BY <4>2
        <5>2. x[k] = p[k - Len(t) + Len(f)]
          BY <2>1, <2>3, <4>2, <5>1
        <5> QED BY <5>1, <5>2
      <4>4. (i - Len(f) + Len(t)) - Len(t) + Len(f) = i
        BY <2>1
      <4> QED BY <4>1, <4>3, <4>4
    <3> QED BY <2>1, <3>1, <3>2
  <2>9. y = p
    BY <2>6, <2>7, <2>8, SameSeq
  <2> QED BY <2>2, <2>5, <2>9
<1> QED BY <1>1, <1>2

LEMMA RepathNamed ==
    ASSUME NEW p, NEW f, NEW t, IsName(p), IsName(f), IsName(t)
    PROVE  IsName(FO!Repath(p, f, t))
<1>1. CASE ~FO!Under(p, f)
  BY <1>1 DEF FO!Repath
<1>2. CASE FO!Under(p, f)
  <2>1. IsSeq(FO!Repath(p, f, t)) /\ Len(FO!Repath(p, f, t)) = Len(t) + Len(p) - Len(f) /\ Len(f) <= Len(p)
    BY <1>2, RepathIs, UnderIs DEF IsName
  <2>2. Len(p) \in Nat /\ Len(f) \in Nat /\ Len(t) \in Nat /\ Len(t) > 0
    BY SeqFacts DEF IsName
  <2> QED BY <2>1, <2>2, SeqFacts DEF IsName
<1> QED BY <1>1, <1>2
-----------------------------------------------------------------------------
\* Where an op takes a name: a rename re-keys it, unless it were to merge it
\* with other mail, and nothing else moves it.
Goes(op, x, y) == IF op.op = "rename"
                  THEN y = FO!Repath(x, op.folder, op.to) /\ (FO!Under(x, op.folder) \/ ~FO!Under(x, op.to))
                  ELSE y = x

\* The first k of the ops take the name s, step by step, to p.
Reach(ops, k, s, p) == \E w : w[1] = s /\ w[k + 1] = p /\ \A i \in 1 .. k : Goes(ops[i], w[i], w[i + 1])

LEMMA ReachNone ==
    ASSUME NEW ops, NEW s
    PROVE  Reach(ops, 0, s, s) /\ \A p : Reach(ops, 0, s, p) => p = s
<1>1. Reach(ops, 0, s, s)
  <2>1. PICK w : w = [i \in {1} |-> s]
    OBVIOUS
  <2>2. w[1] = s /\ w[0 + 1] = s /\ \A i \in 1 .. 0 : Goes(ops[i], w[i], w[i + 1])
    BY <2>1
  <2> QED BY <2>2 DEF Reach
<1>2. ASSUME NEW p, Reach(ops, 0, s, p) PROVE p = s
  BY <1>2 DEF Reach
<1> QED BY <1>1, <1>2

LEMMA ReachMore ==
    ASSUME NEW ops, NEW more, NEW k \in Nat, NEW s, NEW p, NEW q, Reach(ops, k, s, p), Goes(more[k + 1], p, q),
           \A i \in 1 .. k : more[i] = ops[i]
    PROVE  Reach(more, k + 1, s, q)
<1>1. PICK w : w[1] = s /\ w[k + 1] = p /\ \A i \in 1 .. k : Goes(ops[i], w[i], w[i + 1])
  BY DEF Reach
<1>2. PICK v : v = [i \in 1 .. k + 2 |-> IF i = k + 2 THEN q ELSE w[i]]
  OBVIOUS
<1>3. v[(k + 1) + 1] = q /\ \A i \in 1 .. k + 1 : v[i] = w[i]
  BY <1>2
<1>4. ASSUME NEW i \in 1 .. k + 1 PROVE Goes(more[i], v[i], v[i + 1])
  <2>1. CASE i = k + 1
    BY <1>1, <1>3, <2>1
  <2>2. CASE i # k + 1
    <3>1. i \in 1 .. k /\ i + 1 \in 1 .. k + 1
      BY <2>2
    <3> QED BY <1>1, <1>3, <3>1
  <2> QED BY <2>1, <2>2
<1> QED BY <1>1, <1>3, <1>4 DEF Reach

LEMMA ReachAlike ==
    ASSUME NEW ops, NEW more, NEW k \in Nat, NEW s, NEW p, Reach(ops, k, s, p), \A i \in 1 .. k : more[i] = ops[i]
    PROVE  Reach(more, k, s, p)
BY DEF Reach

\* The first op is done.
LEMMA ReachLess ==
    ASSUME NEW ops, NEW rest, NEW k \in Nat \ {0}, NEW s, NEW p, Reach(ops, k, s, p), \A i \in 1 .. k - 1 : rest[i] = ops[i + 1]
    PROVE  \E x : Goes(ops[1], s, x) /\ Reach(rest, k - 1, x, p)
<1>1. PICK w : w[1] = s /\ w[k + 1] = p /\ \A i \in 1 .. k : Goes(ops[i], w[i], w[i + 1])
  BY DEF Reach
<1>2. PICK v : v = [i \in 1 .. k |-> w[i + 1]]
  OBVIOUS
<1>3. Goes(ops[1], s, w[2])
  <2>1. 1 \in 1 .. k /\ 1 + 1 = 2
    OBVIOUS
  <2> QED BY <1>1, <2>1
<1>4. v[1] = w[2] /\ v[(k - 1) + 1] = p
  <2>1. 1 \in 1 .. k /\ k \in 1 .. k /\ (k - 1) + 1 = k /\ 1 + 1 = 2
    OBVIOUS
  <2> QED BY <1>1, <1>2, <2>1
<1>5. ASSUME NEW i \in 1 .. k - 1 PROVE Goes(rest[i], v[i], v[i + 1])
  <2>1. PICK j : j = i + 1
    OBVIOUS
  <2>2. j \in 1 .. k /\ i \in 1 .. k
    BY <2>1
  <2>3. v[i] = w[j] /\ v[j] = w[j + 1] /\ rest[i] = ops[j]
    BY <1>2, <2>1, <2>2
  <2>4. Goes(ops[j], w[j], w[j + 1])
    BY <1>1, <2>2
  <2> QED BY <2>1, <2>3, <2>4
<1>6. Reach(rest, k - 1, w[2], p)
  BY <1>4, <1>5 DEF Reach
<1> QED BY <1>3, <1>6

\* Renames of other names leave a name alone.
LEMMA ReachStill ==
    ASSUME NEW ops, NEW k \in Nat, NEW s,
           \A i \in 1 .. k : ops[i].op = "rename" => ~FO!Under(s, ops[i].folder) /\ ~FO!Under(s, ops[i].to)
    PROVE  Reach(ops, k, s, s)
<1>1. PICK w : w = [i \in 1 .. k + 1 |-> s]
  OBVIOUS
<1>2. \A i \in 1 .. k + 1 : w[i] = s
  BY <1>1
<1>3. w[1] = s /\ w[k + 1] = s
  BY <1>2
<1>4. ASSUME NEW i \in 1 .. k PROVE Goes(ops[i], w[i], w[i + 1])
  <2>1. w[i] = s /\ w[i + 1] = s
    BY <1>2
  <2>2. Goes(ops[i], s, s)
    BY DEF Goes, FO!Repath
  <2> QED BY <2>1, <2>2
<1> QED BY <1>3, <1>4 DEF Reach

\* Without renames there is nowhere to go.
LEMMA ReachAtHome ==
    ASSUME NEW ops, NEW k \in Nat, NEW s, NEW p, Reach(ops, k, s, p), \A i \in 1 .. k : ops[i].op # "rename"
    PROVE  p = s
<1>1. PICK w : w[1] = s /\ w[k + 1] = p /\ \A i \in 1 .. k : Goes(ops[i], w[i], w[i + 1])
  BY DEF Reach
<1>2. \A i \in 1 .. k : w[i + 1] = w[i]
  BY <1>1 DEF Goes
<1>3. PICK T : T = {i \in 1 .. k + 1 : w[i] # s}
  OBVIOUS
<1>4. CASE T = {}
  <2>1. k + 1 \in 1 .. k + 1
    OBVIOUS
  <2> QED BY <1>1, <1>3, <1>4, <2>1
<1>5. CASE T # {}
  <2>1. T \subseteq Nat
    BY <1>3
  <2>2. PICK x \in T : \A y \in T : x <= y
    BY <1>5, <2>1, LeastOfNumbers
  <2>3. x \in 1 .. k + 1 /\ w[x] # s /\ x # 1
    BY <1>1, <1>3, <2>2
  <2>4. PICK y : y = x - 1
    OBVIOUS
  <2>5. y \in 1 .. k /\ y \notin T /\ x = y + 1
    BY <2>2, <2>3, <2>4
  <2>6. w[y] = s
    BY <1>3, <2>5
  <2> QED BY <1>2, <2>3, <2>5, <2>6
<1> QED BY <1>4, <1>5
\* Further ops that are no renames change nothing.
LEMMA ReachOn ==
    ASSUME NEW ops, NEW more, NEW k \in Nat, NEW n \in Nat, k <= n, NEW s, NEW p, Reach(ops, k, s, p),
           \A i \in 1 .. k : more[i] = ops[i], \A i \in k + 1 .. n : more[i].op # "rename"
    PROVE  Reach(more, n, s, p)
<1>1. PICK w : w[1] = s /\ w[k + 1] = p /\ \A i \in 1 .. k : Goes(ops[i], w[i], w[i + 1])
  BY DEF Reach
<1>2. PICK v : v = [i \in 1 .. n + 1 |-> IF i <= k THEN w[i] ELSE p]
  OBVIOUS
<1>3. (\A i \in 1 .. k + 1 : v[i] = w[i]) /\ \A i \in k + 1 .. n + 1 : v[i] = p
  <2>1. (\A i \in 1 .. k : v[i] = w[i]) /\ \A i \in k + 1 .. n + 1 : v[i] = p
    BY <1>2
  <2> QED BY <1>1, <2>1
<1>4. v[1] = s /\ v[n + 1] = p
  BY <1>1, <1>3
<1>5. ASSUME NEW i \in 1 .. n PROVE Goes(more[i], v[i], v[i + 1])
  <2>1. CASE i <= k
    <3>1. i \in 1 .. k /\ i + 1 \in 1 .. k + 1
      BY <2>1
    <3> QED BY <1>1, <1>3, <3>1
  <2>2. CASE i > k
    <3>1. i \in k + 1 .. n /\ i \in k + 1 .. n + 1 /\ i + 1 \in k + 1 .. n + 1
      BY <2>2
    <3>2. v[i] = p /\ v[i + 1] = p
      BY <1>3, <3>1
    <3> QED BY <3>1, <3>2 DEF Goes
  <2> QED BY <2>1, <2>2
<1> QED BY <1>4, <1>5 DEF Reach

-----------------------------------------------------------------------------
IsOp(o) == \/ o.op = "change" /\ o.box \in Boxes /\ DOMAIN o = {"op", "folder", "box", "late"}
           \/ o.op = "rename" /\ IsName(o.folder) /\ IsName(o.to)
           \/ o.op = "delete" /\ IsName(o.folder) /\ DOMAIN o = {"op", "folder"}
IsJob(j) == /\ IsName(j.from) /\ IsName(j.to)
            /\ \/ j.does = "key" /\ j.then \in {"queue", "undo"}
               \/ j.does = "purge" /\ j.then = "nothing"
Trees == /\ \A b \in Boxes : IsSeq(foldersSrv[b])
         /\ IsFiniteSet(stored) /\ IsFiniteSet(tree) /\ \A p \in stored \cup tree : IsName(p)
Mail  == (\A r \in foldersRows : r[1] \in Boxes) /\ shown \subseteq Boxes
Works == IsSeq(foldersJobs) /\ \A i \in 1 .. Len(foldersJobs) : IsJob(foldersJobs[i])
Ops   == IsSeq(foldersQueue) /\ \A i \in 1 .. Len(foldersQueue) : IsOp(foldersQueue[i])

\* Mail of b is filed, or listed, under p.
At(b, p) == (\E r \in foldersRows : r[1] = b /\ r[2] = p) \/ (b \in shown /\ p = foldersOpen)
Led(ops, k, s, p) == s # FO!Gone => Reach(ops, k, s, p)
Leads(b, k, p) == Led(foldersQueue, k, foldersSrv[b], p)

\* A change will be sent for the folder its mail is in by then; the names mail is
\* filed under are those the whole queue leads to, or lead back to such when a
\* refused rename has been undone.
Sent == \A i \in 1 .. Len(foldersQueue) : foldersQueue[i].op = "change" /\ ~foldersQueue[i].late =>
           Leads(foldersQueue[i].box, i - 1, foldersQueue[i].folder)
Filed == ~FO!Undoing => \A b, p : At(b, p) => Leads(b, Len(foldersQueue), p)
Unfiled == FO!Undoing /\ Len(foldersJobs) = 1 =>
             \A b, p : At(b, p) => Leads(b, Len(foldersQueue), FO!Repath(p, foldersJobs[1].from, foldersJobs[1].to))
Orderly == Trees /\ Mail /\ Works /\ Ops /\ Sent /\ Filed /\ Unfiled
FoldersInv == missed = FALSE /\ tangled \in BOOLEAN /\ (~tangled => Orderly)

LEMMA ImagesAreFinite ==
    ASSUME NEW S, NEW T, NEW g, IsFiniteSet(S), T = {g[x] : x \in S}
    PROVE  IsFiniteSet(T)
<1>1. PICK q \in Seq(S) : \A x \in S : \E n \in 1 .. Len(q) : q[n] = x
  BY DEF IsFiniteSet
<1>2. PICK r : r = [i \in 1 .. Len(q) |-> g[q[i]]]
  OBVIOUS
<1>3. r \in Seq(T) /\ Len(r) = Len(q) /\ \A i \in 1 .. Len(q) : r[i] = g[q[i]]
  BY <1>1, <1>2
<1>4. ASSUME NEW y \in T PROVE \E n \in 1 .. Len(r) : r[n] = y
  BY <1>1, <1>3
<1> QED BY <1>3, <1>4 DEF IsFiniteSet

LEMMA SomeNames == IsName(FO!Inbox) /\ IsName(FO!Trash)
<1>1. FO!Inbox \in Seq({"inbox"}) /\ FO!Inbox # <<>>
  BY DEF FO!Inbox
<1>2. FO!Trash \in Seq({"trash"}) /\ FO!Trash # <<>>
  BY DEF FO!Trash
<1> QED BY <1>1, <1>2 DEF IsName, IsSeq

LEMMA PathsAreNames ==
    ASSUME FO!FolderOpsAssumption, Trees
    PROVE  IsFiniteSet(FO!Paths) /\ \A p \in FO!Paths : IsName(p)
<1> DEFINE S == {foldersSrv[b] : b \in Boxes}
<1>1. IsFiniteSet(S)
  BY ImagesAreFinite, SameCounts DEF FO!FolderOpsAssumption
<1>2. IsFiniteSet({p \in S : p # FO!Gone})
  BY <1>1, FS_Subset
<1>3. IsFiniteSet({FO!Inbox, FO!Trash})
  <2>1. {FO!Inbox, FO!Trash} = {FO!Inbox} \cup {FO!Trash}
    OBVIOUS
  <2>2. ASSUME NEW x, NEW y PROVE IsFiniteSet({x} \cup {y})
    <3>1. IsFiniteSet({x})
      BY FS_Singleton
    <3> QED BY <3>1, FS_AddElement
  <2> QED BY <2>1, <2>2
<1>4. FO!Paths = {p \in S : p # FO!Gone} \cup {FO!Inbox, FO!Trash}
  BY DEF FO!Paths
<1>5. \A p \in FO!Paths : IsName(p)
  BY <1>4, SomeNames DEF Trees, IsName, FO!Gone
<1> QED BY <1>2, <1>3, <1>4, <1>5, FS_Union

LEMMA ParentIs ==
    ASSUME NEW p, IsName(p)
    PROVE  /\ IsSeq(FO!DisplayParent(p)) /\ Len(FO!DisplayParent(p)) < Len(p)
           /\ IsName(FO!DisplayLeaf(p))
<1> DEFINE above == {n \in 0 .. Len(p) - 1 : n = 0 \/ SubSeq(p, 1, n) \in tree}
           far == {Len(p) - n : n \in above}
           m == CHOOSE n \in above : \A k \in above : k <= n
<1>1. Len(p) \in Nat /\ Len(p) > 0 /\ IsSeq(p)
  BY SeqFacts DEF IsName
<1>2. m \in above
  <2>1. 0 \in above
    BY <1>1
  <2>2. far \subseteq Nat /\ far # {}
    BY <1>1, <2>1
  <2>3. PICK x \in far : \A y \in far : x <= y
    <3> HIDE DEF far
    <3> QED BY <2>2, LeastOfNumbers
  <2>4. PICK n \in above : x = Len(p) - n
    BY <2>3
  <2>5. \A k \in above : k <= n
    <3> TAKE k \in above
    <3>1. Len(p) - k \in far
      OBVIOUS
    <3>2. Len(p) - n <= Len(p) - k
      BY <2>3, <2>4, <3>1
    <3> QED BY <1>1, <3>2
  <2> HIDE DEF above
  <2> QED BY <2>4, <2>5
<1>3. FO!DisplayParent(p) = SubSeq(p, 1, m)
  BY DEF FO!DisplayParent
<1> HIDE DEF m
<1>4. m \in 0 .. Len(p) - 1
  BY <1>2
<1>5. IsSeq(FO!DisplayParent(p)) /\ Len(FO!DisplayParent(p)) = m
  <2>1. 1 \in Nat \ {0} /\ m \in Nat /\ m <= Len(p) /\ 1 <= m + 1 /\ m + 1 - 1 = m
    BY <1>1, <1>4
  <2> QED BY <1>1, <1>3, <2>1, SubSeqFacts
<1>6. FO!DisplayLeaf(p) = SubSeq(p, m + 1, Len(p))
  BY <1>5 DEF FO!DisplayLeaf
<1>7. IsSeq(FO!DisplayLeaf(p)) /\ Len(FO!DisplayLeaf(p)) = Len(p) + 1 - (m + 1)
  <2>1. m + 1 \in Nat \ {0} /\ Len(p) \in Nat /\ m + 1 <= Len(p) + 1
    BY <1>1, <1>4
  <2> QED BY <1>1, <1>6, <2>1, SubSeqFacts
<1>8. IsName(FO!DisplayLeaf(p))
  BY <1>1, <1>4, <1>7, SeqFacts DEF IsName
<1> QED BY <1>1, <1>4, <1>5, <1>8
-----------------------------------------------------------------------------
\* Steps that move no mailbox and queue no rename: what they queue is for mail
\* listed where the queue leads, and what they list was filed there.
Quieter == /\ ~FO!Undoing' => ~FO!Undoing
           /\ FO!Undoing' /\ Len(foldersJobs') = 1 => foldersJobs' = foldersJobs
LEMMA Unmoved ==
    ASSUME Orderly, foldersSrv' = foldersSrv, Quieter, \A b, p : At(b, p)' => At(b, p),
           IsSeq(foldersQueue'), Len(foldersQueue) <= Len(foldersQueue'), \A i \in 1 .. Len(foldersQueue) : foldersQueue'[i] = foldersQueue[i],
           \A i \in Len(foldersQueue) + 1 .. Len(foldersQueue') :
             /\ foldersQueue'[i].op # "rename"
             /\ foldersQueue'[i].op = "change" /\ ~foldersQueue'[i].late => ~FO!Undoing /\ At(foldersQueue'[i].box, foldersQueue'[i].folder)
    PROVE  Sent' /\ Filed' /\ Unfiled'
<1>1. Len(foldersQueue) \in Nat /\ Len(foldersQueue') \in Nat
  BY SeqFacts DEF Orderly, Ops
<1>2. ASSUME NEW b, NEW p, NEW k \in Nat, NEW n \in Nat, k <= Len(foldersQueue), k <= n, n <= Len(foldersQueue'), k = n \/ k = Len(foldersQueue), Leads(b, k, p)
      PROVE  Led(foldersQueue', n, foldersSrv'[b], p)
  <2> SUFFICES ASSUME foldersSrv[b] # FO!Gone PROVE Reach(foldersQueue', n, foldersSrv[b], p)
    BY DEF Led
  <2>1. Reach(foldersQueue, k, foldersSrv[b], p)
    BY <1>2 DEF Leads, Led
  <2>2. \A i \in 1 .. k : foldersQueue'[i] = foldersQueue[i]
    BY <1>1, <1>2
  <2>3. \A i \in k + 1 .. n : foldersQueue'[i].op # "rename"
    BY <1>1, <1>2
  <2> QED BY <1>2, <2>1, <2>2, <2>3, ReachOn
<1>3. Sent'
  <2> SUFFICES ASSUME NEW i \in 1 .. Len(foldersQueue'), foldersQueue'[i].op = "change", ~foldersQueue'[i].late
               PROVE  Led(foldersQueue', i - 1, foldersSrv'[foldersQueue'[i].box], foldersQueue'[i].folder)
    BY DEF Sent, Leads
  <2>1. CASE i <= Len(foldersQueue)
    <3>1. i \in 1 .. Len(foldersQueue) /\ foldersQueue'[i] = foldersQueue[i]
      BY <1>1, <2>1
    <3>2. Leads(foldersQueue[i].box, i - 1, foldersQueue[i].folder)
      BY <3>1 DEF Orderly, Sent
    <3>3. i - 1 \in Nat /\ i - 1 <= Len(foldersQueue) /\ i - 1 <= Len(foldersQueue')
      BY <1>1, <2>1
    <3> QED BY <1>2, <3>1, <3>2, <3>3
  <2>2. CASE i > Len(foldersQueue)
    <3>1. i \in Len(foldersQueue) + 1 .. Len(foldersQueue')
      BY <1>1, <2>2
    <3>2. ~FO!Undoing /\ At(foldersQueue'[i].box, foldersQueue'[i].folder)
      BY <3>1
    <3>3. Leads(foldersQueue'[i].box, Len(foldersQueue), foldersQueue'[i].folder)
      BY <3>2 DEF Orderly, Filed
    <3>4. i - 1 \in Nat /\ Len(foldersQueue) <= i - 1 /\ i - 1 <= Len(foldersQueue')
      BY <1>1, <3>1
    <3> QED BY <1>1, <1>2, <3>3, <3>4
  <2> QED BY <1>1, <2>1, <2>2
<1>4. Filed'
  <2> SUFFICES ASSUME ~FO!Undoing', NEW b, NEW p, At(b, p)'
               PROVE  Led(foldersQueue', Len(foldersQueue'), foldersSrv'[b], p)
    BY DEF Filed, Leads
  <2>1. Leads(b, Len(foldersQueue), p)
    BY DEF Orderly, Filed, Quieter
  <2> QED BY <1>1, <1>2, <2>1
<1>5. Unfiled'
  <2> SUFFICES ASSUME FO!Undoing', Len(foldersJobs') = 1, NEW b, NEW p, At(b, p)'
               PROVE  Led(foldersQueue', Len(foldersQueue'), foldersSrv'[b], FO!Repath(p, foldersJobs'[1].from, foldersJobs'[1].to))
    BY DEF Unfiled, Leads
  <2>1. foldersJobs' = foldersJobs
    BY DEF Quieter
  <2>2. FO!Undoing
    BY <2>1 DEF FO!Undoing
  <2>3. Leads(b, Len(foldersQueue), FO!Repath(p, foldersJobs[1].from, foldersJobs[1].to))
    BY <2>1, <2>2 DEF Orderly, Unfiled
  <2>4. PICK q : q = FO!Repath(p, foldersJobs[1].from, foldersJobs[1].to)
    OBVIOUS
  <2>5. Led(foldersQueue', Len(foldersQueue'), foldersSrv'[b], q)
    BY <1>1, <1>2, <2>3, <2>4
  <2>6. q = FO!Repath(p, foldersJobs'[1].from, foldersJobs'[1].to)
    BY <2>1, <2>4
  <2> QED BY <2>5, <2>6
<1> QED BY <1>3, <1>4, <1>5

\* Steps that are done with the first op.
LEMMA Popped ==
    ASSUME Orderly, Quieter, foldersQueue # <<>>, foldersQueue' = Tail(foldersQueue), \A b, p : At(b, p)' => At(b, p),
           \A b \in Boxes : foldersSrv'[b] # FO!Gone =>
             foldersSrv[b] # FO!Gone /\ \A y : Goes(foldersQueue[1], foldersSrv[b], y) => y = foldersSrv'[b]
    PROVE  Sent' /\ Filed' /\ Unfiled'
<1>1. Len(foldersQueue) \in Nat \ {0} /\ Len(foldersQueue') = Len(foldersQueue) - 1 /\ \A i \in 1 .. Len(foldersQueue) - 1 : foldersQueue'[i] = foldersQueue[i + 1]
  <2>1. IsName(foldersQueue)
    BY DEF Orderly, Ops, IsName
  <2> QED BY <2>1, TailFacts, SeqFacts DEF IsName
<1>2. ASSUME NEW b \in Boxes, NEW p, NEW k \in Nat \ {0}, k <= Len(foldersQueue), Leads(b, k, p)
      PROVE  Led(foldersQueue', k - 1, foldersSrv'[b], p)
  <2> SUFFICES ASSUME foldersSrv'[b] # FO!Gone PROVE Reach(foldersQueue', k - 1, foldersSrv'[b], p)
    BY DEF Led
  <2>1. foldersSrv[b] # FO!Gone /\ \A y : Goes(foldersQueue[1], foldersSrv[b], y) => y = foldersSrv'[b]
    OBVIOUS
  <2>2. Reach(foldersQueue, k, foldersSrv[b], p)
    BY <1>2, <2>1 DEF Leads, Led
  <2>3. \A i \in 1 .. k - 1 : foldersQueue'[i] = foldersQueue[i + 1]
    BY <1>1, <1>2
  <2>4. PICK x : Goes(foldersQueue[1], foldersSrv[b], x) /\ Reach(foldersQueue', k - 1, x, p)
    BY <2>2, <2>3, ReachLess
  <2> QED BY <2>1, <2>4
<1>3. Sent'
  <2> SUFFICES ASSUME NEW i \in 1 .. Len(foldersQueue'), foldersQueue'[i].op = "change", ~foldersQueue'[i].late
               PROVE  Led(foldersQueue', i - 1, foldersSrv'[foldersQueue'[i].box], foldersQueue'[i].folder)
    BY DEF Sent, Leads
  <2>1. i \in Nat \ {0} /\ i <= Len(foldersQueue) - 1 /\ i + 1 \in 1 .. Len(foldersQueue)
    BY <1>1
  <2>2. PICK o : o = foldersQueue[i + 1] /\ o = foldersQueue'[i]
    BY <1>1, <2>1
  <2>3. o.box \in Boxes
    BY <2>1, <2>2 DEF Orderly, Ops, IsOp
  <2>4. Leads(o.box, (i + 1) - 1, o.folder)
    BY <2>1, <2>2 DEF Orderly, Sent
  <2>5. (i + 1) - 1 = i
    BY <2>1
  <2>6. Leads(o.box, i, o.folder)
    BY <2>4, <2>5
  <2>7. Led(foldersQueue', i - 1, foldersSrv'[o.box], o.folder)
    BY <1>1, <1>2, <2>1, <2>3, <2>6
  <2> QED BY <2>2, <2>7
<1>4. ASSUME NEW b, NEW p, NEW q, At(b, p), Leads(b, Len(foldersQueue), q)
      PROVE  Led(foldersQueue', Len(foldersQueue'), foldersSrv'[b], q)
  <2>1. b \in Boxes
    BY <1>4 DEF At, Orderly, Mail
  <2>2. Led(foldersQueue', Len(foldersQueue) - 1, foldersSrv'[b], q)
    BY <1>1, <1>2, <1>4, <2>1
  <2> QED BY <1>1, <2>2
<1>5. Filed'
  <2> SUFFICES ASSUME ~FO!Undoing', NEW b, NEW p, At(b, p)'
               PROVE  Led(foldersQueue', Len(foldersQueue'), foldersSrv'[b], p)
    BY DEF Filed, Leads
  <2>1. Leads(b, Len(foldersQueue), p)
    BY DEF Orderly, Filed, Quieter
  <2> QED BY <1>4, <2>1
<1>6. Unfiled'
  <2> SUFFICES ASSUME FO!Undoing', Len(foldersJobs') = 1, NEW b, NEW p, At(b, p)'
               PROVE  Led(foldersQueue', Len(foldersQueue'), foldersSrv'[b], FO!Repath(p, foldersJobs'[1].from, foldersJobs'[1].to))
    BY DEF Unfiled, Leads
  <2>1. foldersJobs' = foldersJobs
    BY DEF Quieter
  <2>2. FO!Undoing
    BY <2>1 DEF FO!Undoing
  <2>3. PICK q : q = FO!Repath(p, foldersJobs[1].from, foldersJobs[1].to)
    OBVIOUS
  <2>4. Leads(b, Len(foldersQueue), q)
    BY <2>1, <2>2, <2>3 DEF Orderly, Unfiled
  <2>5. Led(foldersQueue', Len(foldersQueue'), foldersSrv'[b], q)
    BY <1>4, <2>4
  <2>6. q = FO!Repath(p, foldersJobs'[1].from, foldersJobs'[1].to)
    BY <2>1, <2>3
  <2> QED BY <2>5, <2>6
<1> QED BY <1>3, <1>5, <1>6
-----------------------------------------------------------------------------
LEMMA JobAdded ==
    ASSUME Works, NEW j, IsJob(j), j.then # "undo", foldersJobs' = Append(foldersJobs, j)
    PROVE  Works' /\ Quieter
<1>1. /\ Len(foldersJobs) \in Nat /\ IsSeq(foldersJobs') /\ Len(foldersJobs') = Len(foldersJobs) + 1 /\ foldersJobs'[Len(foldersJobs) + 1] = j
      /\ \A i \in 1 .. Len(foldersJobs) : foldersJobs'[i] = foldersJobs[i]
  BY AppendFacts, SeqFacts DEF Works
<1>2. Works'
  <2>1. ASSUME NEW i \in 1 .. Len(foldersJobs') PROVE IsJob(foldersJobs'[i])
    <3>1. i = Len(foldersJobs) + 1 \/ i \in 1 .. Len(foldersJobs)
      BY <1>1
    <3> QED BY <1>1, <3>1 DEF Works
  <2> QED BY <1>1, <2>1 DEF Works, IsJob
<1>3. DOMAIN foldersJobs = 1 .. Len(foldersJobs) /\ DOMAIN foldersJobs' = 1 .. Len(foldersJobs')
  BY <1>1, SeqFacts DEF Works
<1>4. FO!Undoing' => FO!Undoing
  <2> SUFFICES ASSUME NEW i \in DOMAIN foldersJobs', foldersJobs'[i].then = "undo" PROVE FO!Undoing
    BY DEF FO!Undoing
  <2>1. i \in 1 .. Len(foldersJobs)
    BY <1>1, <1>3
  <2> QED BY <1>1, <1>3, <2>1 DEF FO!Undoing
<1>5. FO!Undoing => FO!Undoing'
  <2> SUFFICES ASSUME NEW i \in DOMAIN foldersJobs, foldersJobs[i].then = "undo" PROVE FO!Undoing'
    BY DEF FO!Undoing
  <2>1. i \in 1 .. Len(foldersJobs') /\ foldersJobs'[i] = foldersJobs[i]
    BY <1>1, <1>3
  <2> QED BY <1>3, <2>1 DEF FO!Undoing
<1>6. FO!Undoing => Len(foldersJobs) > 0
  BY <1>1, <1>3 DEF FO!Undoing
<1>7. Quieter
  BY <1>1, <1>4, <1>5, <1>6 DEF Quieter
<1> QED BY <1>2, <1>7

LEMMA OpAdded ==
    ASSUME Ops, NEW o, IsOp(o), foldersQueue' = Append(foldersQueue, o)
    PROVE  /\ Ops' /\ Len(foldersQueue) \in Nat /\ Len(foldersQueue') = Len(foldersQueue) + 1 /\ foldersQueue'[Len(foldersQueue) + 1] = o
           /\ \A i \in 1 .. Len(foldersQueue) : foldersQueue'[i] = foldersQueue[i]
<1>1. /\ Len(foldersQueue) \in Nat /\ IsSeq(foldersQueue') /\ Len(foldersQueue') = Len(foldersQueue) + 1 /\ foldersQueue'[Len(foldersQueue) + 1] = o
      /\ \A i \in 1 .. Len(foldersQueue) : foldersQueue'[i] = foldersQueue[i]
  BY AppendFacts, SeqFacts DEF Ops
<1>2. ASSUME NEW i \in 1 .. Len(foldersQueue') PROVE IsOp(foldersQueue'[i])
  <2>1. i = Len(foldersQueue) + 1 \/ i \in 1 .. Len(foldersQueue)
    BY <1>1
  <2> QED BY <1>1, <2>1 DEF Ops
<1>3. Ops'
  BY <1>1, <1>2 DEF Ops, IsOp
<1> QED BY <1>1, <1>3

\* Nothing of the mail, of the queue and of the server changes.
LEMMA Resting ==
    ASSUME Orderly, foldersSrv' = foldersSrv, foldersQueue' = foldersQueue, Quieter, \A b, p : At(b, p)' => At(b, p)
    PROVE  Ops' /\ Sent' /\ Filed' /\ Unfiled'
<1>1. Len(foldersQueue) \in Nat /\ IsSeq(foldersQueue)
  BY SeqFacts DEF Orderly, Ops
<1>2. Ops'
  BY DEF Orderly, Ops, IsOp
<1>3. \A i \in Len(foldersQueue) + 1 .. Len(foldersQueue') : FALSE
  BY <1>1
<1>4. Sent' /\ Filed' /\ Unfiled'
  BY <1>1, <1>3, Unmoved
<1> QED BY <1>2, <1>4

\* A folder is opened: its list is of what is filed under it.
LEMMA Opened ==
    ASSUME NEW p, FO!OpenAt(p, foldersRows), foldersRows' = foldersRows
    PROVE  /\ \A b, q : At(b, q)' => At(b, q)
           /\ Mail => Mail'
<1>1. foldersOpen' = p /\ shown' = {b \in Boxes : <<b, p>> \in foldersRows}
  BY DEF FO!OpenAt
<1>2. ASSUME NEW b, NEW q, At(b, q)' PROVE At(b, q)
  <2>1. CASE \E r \in foldersRows' : r[1] = b /\ r[2] = q
    BY <2>1 DEF At
  <2>2. CASE b \in shown' /\ q = foldersOpen'
    <3>1. <<b, q>> \in foldersRows /\ <<b, q>>[1] = b /\ <<b, q>>[2] = q
      BY <1>1, <2>2
    <3> QED BY <3>1 DEF At
  <2> QED BY <1>2, <2>1, <2>2 DEF At
<1>3. Mail => Mail'
  BY <1>1 DEF Mail
<1> QED BY <1>2, <1>3

LEMMA RenameKeeps ==
    ASSUME Orderly, NEW p \in tree, NEW to, IsName(to), FO!RenameOnServer(p, to), foldersSrv' = foldersSrv
    PROVE  Orderly'
<1> DEFINE j == [does |-> "key", from |-> p, to |-> to, then |-> "queue"]
<1>1. foldersJobs' = Append(foldersJobs, j) /\ UNCHANGED <<foldersRows, stored, tree, foldersOpen, shown, foldersQueue>>
  BY DEF FO!RenameOnServer, FO!Rekey
<1>2. IsJob(j) /\ j.then # "undo"
  BY DEF IsJob, Orderly, Trees
<1> HIDE DEF j
<1>3. Works' /\ Quieter
  BY <1>1, <1>2, JobAdded DEF Orderly
<1>4. \A b, q : At(b, q)' => At(b, q)
  BY <1>1 DEF At
<1>5. Ops' /\ Sent' /\ Filed' /\ Unfiled'
  BY <1>1, <1>3, <1>4, Resting
<1>6. Trees' /\ Mail'
  BY <1>1 DEF Orderly, Trees, Mail
<1> QED BY <1>3, <1>5, <1>6 DEF Orderly

LEMMA ChildNamed ==
    ASSUME NEW p, NEW n, IsSeq(p)
    PROVE  IsName(Append(p, n))
<1>1. IsSeq(Append(p, n)) /\ Len(Append(p, n)) = Len(p) + 1 /\ Len(p) \in Nat
  BY AppendFacts, SeqFacts
<1> QED BY <1>1, SeqFacts DEF IsName

LEMMA MoveKeeps ==
    ASSUME FO!FolderOpsAssumption, Orderly, NEW p \in tree, NEW parent \in Parents, FO!MoveFolder(p, parent)
    PROVE  Orderly'
<1>1. FO!RenameOnServer(p, parent \o FO!DisplayLeaf(p)) /\ foldersSrv' = foldersSrv
  BY DEF FO!MoveFolder, FO!Gesture
<1>2. IsSeq(parent) /\ IsName(FO!DisplayLeaf(p))
  BY ParentIs DEF FO!FolderOpsAssumption, IsSeq, Orderly, Trees
<1>3. IsName(parent \o FO!DisplayLeaf(p))
  <2>1. /\ Len(parent) \in Nat /\ Len(FO!DisplayLeaf(p)) \in Nat /\ Len(FO!DisplayLeaf(p)) > 0
    BY <1>2, SeqFacts DEF IsName
  <2>2. IsSeq(parent \o FO!DisplayLeaf(p)) /\ Len(parent \o FO!DisplayLeaf(p)) = Len(parent) + Len(FO!DisplayLeaf(p))
    BY <1>2, ConcatFacts DEF IsName
  <2> QED BY <2>1, <2>2, SeqFacts DEF IsName
<1> QED BY <1>1, <1>3, RenameKeeps

LEMMA RenameFolderKeeps ==
    ASSUME Orderly, NEW p \in tree, NEW leaf, FO!RenameFolder(p, leaf)
    PROVE  Orderly'
<1>1. FO!RenameOnServer(p, Append(FO!DisplayParent(p), leaf)) /\ foldersSrv' = foldersSrv
  BY DEF FO!RenameFolder, FO!Gesture
<1>2. IsName(Append(FO!DisplayParent(p), leaf))
  BY ParentIs, ChildNamed DEF Orderly, Trees
<1> QED BY <1>1, <1>2, RenameKeeps

LEMMA DeleteKeeps ==
    ASSUME Orderly, NEW p \in tree, FO!DeleteFolder(p)
    PROVE  Orderly'
<1>1. foldersSrv' = foldersSrv
  BY DEF FO!DeleteFolder, FO!Gesture
<1>2. CASE FO!RenameOnServer(p, FO!FreeChildPath(FO!Trash, FO!FolderLeaf(p)))
  <2>1. IsName(FO!FreeChildPath(FO!Trash, FO!FolderLeaf(p)))
    BY SomeNames, ChildNamed DEF FO!FreeChildPath, IsName
  <2> QED BY <1>1, <1>2, <2>1, RenameKeeps
<1>3. CASE /\ FO!DropFromTree(FO!FolderSubtree(p))
           /\ \E doomed \in FO!DeepestFirst(FO!FolderSubtree(p)) :
                foldersQueue' = foldersQueue \o [i \in DOMAIN doomed |-> [op |-> "delete", folder |-> doomed[i]]]
           /\ UNCHANGED <<foldersRows, foldersJobs>>
  <2> DEFINE S == FO!FolderSubtree(p)
  <2>1. IsFiniteSet(S) /\ \A q \in S : IsName(q)
    <3>1. S \subseteq tree
      BY DEF FO!FolderSubtree
    <3> QED BY <3>1, FS_Subset DEF Orderly, Trees
  <2>2. PICK doomed \in FO!DeepestFirst(S) :
          foldersQueue' = foldersQueue \o [i \in DOMAIN doomed |-> [op |-> "delete", folder |-> doomed[i]]]
    BY <1>3
  <2>3. Cardinality(S) \in Nat
    BY <2>1, FS_CardinalityType
  <2>4. DOMAIN doomed = 1 .. Cardinality(S) /\ \A i \in 1 .. Cardinality(S) : IsName(doomed[i])
    BY <2>1, <2>2, SameCounts DEF FO!DeepestFirst
  <2>5. PICK more : more = [i \in DOMAIN doomed |-> [op |-> "delete", folder |-> doomed[i]]]
    OBVIOUS
  <2>6. \A i \in 1 .. Cardinality(S) : more[i].op = "delete" /\ IsName(more[i].folder) /\ DOMAIN more[i] = {"op", "folder"}
    BY <2>4, <2>5
  <2>7. IsSeq(more) /\ Len(more) = Cardinality(S)
    <3> DEFINE T == {more[i] : i \in 1 .. Cardinality(S)}
    <3>1. more \in [1 .. Cardinality(S) -> T]
      BY <2>4, <2>5
    <3>2. more \in Seq(T)
      BY <2>3, <3>1
    <3> QED BY <2>3, <3>1, <3>2 DEF IsSeq
  <2>8. /\ IsSeq(foldersQueue') /\ Len(foldersQueue') = Len(foldersQueue) + Len(more) /\ Len(foldersQueue) \in Nat
        /\ \A i \in 1 .. Len(foldersQueue) + Len(more) : foldersQueue'[i] = IF i <= Len(foldersQueue) THEN foldersQueue[i] ELSE more[i - Len(foldersQueue)]
    BY <2>2, <2>5, <2>7, ConcatFacts, SeqFacts DEF Orderly, Ops
  <2>9. \A i \in 1 .. Len(foldersQueue) : foldersQueue'[i] = foldersQueue[i]
    BY <2>3, <2>7, <2>8
  <2>10. ASSUME NEW i \in Len(foldersQueue) + 1 .. Len(foldersQueue')
         PROVE  foldersQueue'[i].op = "delete" /\ IsName(foldersQueue'[i].folder) /\ DOMAIN foldersQueue'[i] = {"op", "folder"}
    <3>1. i - Len(foldersQueue) \in 1 .. Cardinality(S)
      BY <2>3, <2>7, <2>8
    <3>2. foldersQueue'[i] = more[i - Len(foldersQueue)]
      BY <2>3, <2>7, <2>8
    <3> QED BY <2>6, <3>1, <3>2
  <2>11. Ops'
    <3>1. ASSUME NEW i \in 1 .. Len(foldersQueue') PROVE IsOp(foldersQueue'[i])
      <4>1. i \in 1 .. Len(foldersQueue) \/ i \in Len(foldersQueue) + 1 .. Len(foldersQueue')
        BY <2>3, <2>7, <2>8
      <4> QED BY <2>9, <2>10, <4>1 DEF Orderly, Ops, IsOp
    <3> QED BY <2>8, <3>1 DEF Ops, IsOp
  <2>12. stored' = stored \ S /\ tree' = stored \ S /\ (FO!OpenAt(FO!Inbox, foldersRows) \/ UNCHANGED <<foldersOpen, shown>>)
    BY <1>3 DEF FO!DropFromTree
  <2>13. Trees'
    <3>1. IsFiniteSet(stored \ S)
      BY FS_Subset DEF Orderly, Trees
    <3> QED BY <1>1, <2>12, <3>1 DEF Orderly, Trees
  <2>14. (\A b, q : At(b, q)' => At(b, q)) /\ Mail'
    <3>1. CASE FO!OpenAt(FO!Inbox, foldersRows)
      BY <1>3, <3>1, Opened DEF Orderly
    <3>2. CASE UNCHANGED <<foldersOpen, shown>>
      BY <1>3, <3>2 DEF At, Orderly, Mail
    <3> QED BY <2>12, <3>1, <3>2
  <2>15. Works' /\ Quieter
    BY <1>3 DEF Orderly, Works, IsJob, Quieter, FO!Undoing
  <2>16. Len(foldersQueue) <= Len(foldersQueue')
    BY <2>3, <2>7, <2>8
  <2>17. Sent' /\ Filed' /\ Unfiled'
    <3>1. \A i \in Len(foldersQueue) + 1 .. Len(foldersQueue') : foldersQueue'[i].op # "rename" /\ foldersQueue'[i].op # "change"
      BY <2>10
    <3> QED BY <1>1, <2>8, <2>9, <2>14, <2>15, <2>16, <3>1, Unmoved
  <2> QED BY <2>11, <2>13, <2>14, <2>15, <2>17 DEF Orderly
<1> QED BY <1>2, <1>3 DEF FO!DeleteFolder
LEMMA ChangeKeeps ==
    ASSUME Orderly, NEW b \in Boxes, FO!Change(b)
    PROVE  Orderly'
<1> DEFINE yes == FO!Undoing
           o == [op |-> "change", folder |-> foldersOpen, box |-> b, late |-> yes]
<1>1. b \in shown /\ foldersQueue' = Append(foldersQueue, o) /\ UNCHANGED <<foldersSrv, foldersRows, stored, tree, foldersOpen, shown, foldersJobs>>
  BY DEF FO!Change, FO!Gesture
<1> HIDE DEF yes
<1>2. /\ o.op = "change" /\ o.folder = foldersOpen /\ o.box = b /\ o.late = yes
      /\ DOMAIN o = {"op", "folder", "box", "late"}
  OBVIOUS
<1> HIDE DEF o
<1>3. IsOp(o)
  BY <1>2 DEF IsOp
<1>4. /\ Ops' /\ Len(foldersQueue) \in Nat /\ Len(foldersQueue') = Len(foldersQueue) + 1 /\ foldersQueue'[Len(foldersQueue) + 1] = o
      /\ \A i \in 1 .. Len(foldersQueue) : foldersQueue'[i] = foldersQueue[i]
  BY <1>1, <1>3, OpAdded DEF Orderly
<1>5. Works' /\ Quieter /\ Trees' /\ Mail'
  BY <1>1 DEF Orderly, Works, IsJob, Quieter, FO!Undoing, Trees, Mail
<1>6. \A c, p : At(c, p)' => At(c, p)
  BY <1>1 DEF At
<1>7. ASSUME NEW i \in Len(foldersQueue) + 1 .. Len(foldersQueue')
      PROVE  /\ foldersQueue'[i].op # "rename"
             /\ foldersQueue'[i].op = "change" /\ ~foldersQueue'[i].late => ~FO!Undoing /\ At(foldersQueue'[i].box, foldersQueue'[i].folder)
  <2>1. foldersQueue'[i] = o
    <3>1. i = Len(foldersQueue) + 1
      BY <1>4
    <3> QED BY <1>4, <3>1
  <2>2. At(b, foldersOpen)
    BY <1>1 DEF At
  <2>3. ~o.late => ~FO!Undoing
    BY <1>2, Zenon DEF yes
  <2> QED BY <1>2, <2>1, <2>2, <2>3
<1>8. IsSeq(foldersQueue') /\ Len(foldersQueue) <= Len(foldersQueue')
  BY <1>4 DEF Ops
<1>9. Sent' /\ Filed' /\ Unfiled'
  BY <1>1, <1>4, <1>5, <1>6, <1>7, <1>8, Unmoved
<1> QED BY <1>4, <1>5, <1>9 DEF Orderly

LEMMA OpenKeeps ==
    ASSUME Orderly, NEW p, FO!OpenFolder(p)
    PROVE  Orderly'
<1>1. UNCHANGED <<foldersSrv, foldersRows, stored, tree, foldersQueue, foldersJobs>> /\ FO!OpenAt(p, foldersRows)
  BY DEF FO!OpenFolder
<1>2. (\A b, q : At(b, q)' => At(b, q)) /\ Mail'
  BY <1>1, Opened DEF Orderly
<1>3. Works' /\ Quieter /\ Trees'
  BY <1>1 DEF Orderly, Works, IsJob, Quieter, FO!Undoing, Trees
<1>4. Ops' /\ Sent' /\ Filed' /\ Unfiled'
  BY <1>1, <1>2, <1>3, Resting
<1> QED BY <1>2, <1>3, <1>4 DEF Orderly

LEMMA ListingKeeps ==
    ASSUME FO!FolderOpsAssumption, Orderly, FO!Listing
    PROVE  Orderly'
<1>1. UNCHANGED <<foldersSrv, foldersRows, foldersQueue, foldersJobs>> /\ stored' = FO!Paths /\ tree' = FO!Paths
  BY DEF FO!Listing
<1>2. PICK p : FO!OpenAt(p, foldersRows)
  BY DEF FO!Listing
<1>3. (\A b, q : At(b, q)' => At(b, q)) /\ Mail'
  BY <1>1, <1>2, Opened DEF Orderly
<1>4. Trees'
  BY <1>1, PathsAreNames DEF Orderly, Trees
<1>5. Works' /\ Quieter
  BY <1>1 DEF Orderly, Works, IsJob, Quieter, FO!Undoing
<1>6. Ops' /\ Sent' /\ Filed' /\ Unfiled'
  BY <1>1, <1>3, <1>5, Resting
<1> QED BY <1>3, <1>4, <1>5, <1>6 DEF Orderly

-----------------------------------------------------------------------------
\* The worker has re-keyed the mail, and the list that is open with it.
LEMMA Rekeyed ==
    ASSUME Orderly, FO!JobDone, foldersJobs[1].does = "key"
    PROVE  /\ Trees' /\ Mail'
           /\ \A b, p : At(b, p)' =>
                \E q : /\ At(b, q) /\ p = FO!Repath(q, foldersJobs[1].from, foldersJobs[1].to)
                       /\ (\E r \in foldersRows : r[2] = q) \/ (shown # {} /\ q = foldersOpen)
<1> DEFINE f == foldersJobs[1].from
           t == foldersJobs[1].to
           new == {<<r[1], FO!Repath(r[2], f, t)>> : r \in foldersRows}
<1>1. /\ foldersSrv' = foldersSrv /\ foldersRows' = new /\ stored' = {FO!Repath(p, f, t) : p \in stored} /\ tree' = stored'
      /\ IF FO!Under(foldersOpen, f) THEN FO!OpenAt(FO!Repath(foldersOpen, f, t), new) ELSE UNCHANGED <<foldersOpen, shown>>
  BY DEF FO!JobDone, FO!Committed, FO!Restored
<1>2. IsName(f) /\ IsName(t)
  BY DEF FO!JobDone, Orderly, Works, IsJob
<1> HIDE DEF f, t
<1>3. Trees'
  <2>1. PICK g : g = [p \in stored |-> FO!Repath(p, f, t)]
    OBVIOUS
  <2>2. stored' = {g[p] : p \in stored}
    BY <1>1, <2>1
  <2>3. IsFiniteSet(stored')
    BY <2>2, ImagesAreFinite DEF Orderly, Trees
  <2>4. \A p \in stored' : IsName(p)
    BY <1>1, <1>2, RepathNamed DEF Orderly, Trees
  <2> QED BY <1>1, <2>3, <2>4 DEF Orderly, Trees
<1>4. Mail'
  BY <1>1 DEF Orderly, Mail, FO!OpenAt
<1>5. ASSUME NEW b, NEW p, NEW r \in foldersRows', r[1] = b, r[2] = p
      PROVE  \E q : At(b, q) /\ p = FO!Repath(q, f, t) /\ \E x \in foldersRows : x[2] = q
  <2>1. PICK x \in foldersRows : r = <<x[1], FO!Repath(x[2], f, t)>>
    BY <1>1
  <2>2. x[1] = b /\ p = FO!Repath(x[2], f, t)
    BY <1>5, <2>1
  <2> QED BY <2>2 DEF At
<1>6. ASSUME NEW b, NEW p, At(b, p)'
      PROVE  \E q : /\ At(b, q) /\ p = FO!Repath(q, f, t)
                    /\ (\E r \in foldersRows : r[2] = q) \/ (shown # {} /\ q = foldersOpen)
  <2>1. CASE \E r \in foldersRows' : r[1] = b /\ r[2] = p
    BY <1>5, <2>1
  <2>2. CASE b \in shown' /\ p = foldersOpen'
    <3>1. CASE FO!Under(foldersOpen, f)
      <4>1. <<b, p>> \in foldersRows' /\ <<b, p>>[1] = b /\ <<b, p>>[2] = p
        BY <1>1, <2>2, <3>1 DEF FO!OpenAt
      <4> QED BY <1>5, <4>1
    <3>2. CASE ~FO!Under(foldersOpen, f)
      <4>1. b \in shown /\ p = foldersOpen
        BY <1>1, <2>2, <3>2
      <4>2. FO!Repath(foldersOpen, f, t) = foldersOpen
        BY <3>2 DEF FO!Repath
      <4> QED BY <4>1, <4>2 DEF At
    <3> QED BY <3>1, <3>2
  <2> QED BY <1>6, <2>1, <2>2 DEF At
<1> QED BY <1>3, <1>4, <1>6 DEF f, t

LEMMA DoneKeeps ==
    ASSUME Orderly, FO!JobDone, ~tangled'
    PROVE  Orderly'
<1> DEFINE job == foldersJobs[1]
<1>1. /\ Len(foldersJobs) = 1 /\ foldersJobs' = <<>> /\ foldersSrv' = foldersSrv /\ foldersRows' = FO!Committed(job)
      /\ foldersQueue' = IF job.then # "queue" THEN foldersQueue
                  ELSE Append(foldersQueue, [op |-> "rename", folder |-> job.from, to |-> job.to])
      /\ ~(job.then = "queue" /\ FO!Taken(job.to))
  BY DEF FO!JobDone
<1>2. IsJob(job)
  BY <1>1 DEF Orderly, Works
<1>3. Works' /\ ~FO!Undoing'
  <2>1. <<>> \in Seq({}) /\ Len(<<>>) = 0 /\ DOMAIN <<>> = {}
    OBVIOUS
  <2> QED BY <1>1, <2>1 DEF Works, IsSeq, FO!Undoing
<1>4. FO!Undoing <=> job.then = "undo"
  <2>1. DOMAIN foldersJobs = {1}
    BY <1>1, SeqFacts DEF Orderly, Works
  <2> QED BY <2>1 DEF FO!Undoing
<1>5. Unfiled'
  BY <1>3 DEF Unfiled
<1> HIDE DEF job
<1>6. CASE job.does = "purge"
  <2>1. job.then = "nothing"
    BY <1>2, <1>6 DEF IsJob
  <2>2. /\ foldersRows' \subseteq foldersRows /\ stored' = stored /\ tree' = tree /\ UNCHANGED <<foldersOpen, shown>> /\ foldersQueue' = foldersQueue
    BY <1>1, <1>6, <2>1 DEF FO!JobDone, FO!Committed, FO!Restored, job
  <2>3. Trees' /\ Mail' /\ \A b, p : At(b, p)' => At(b, p)
    BY <1>1, <2>2 DEF Orderly, Trees, Mail, At
  <2>4. Quieter
    BY <1>3, <1>4, <2>1 DEF Quieter
  <2>5. Ops' /\ Sent' /\ Filed' /\ Unfiled'
    BY <1>1, <2>2, <2>3, <2>4, Resting
  <2> QED BY <1>3, <2>3, <2>5 DEF Orderly
<1>7. CASE job.does = "key" /\ job.then = "undo"
  <2>1. /\ Trees' /\ Mail'
        /\ \A b, p : At(b, p)' => \E q : At(b, q) /\ p = FO!Repath(q, job.from, job.to)
    BY <1>7, Rekeyed DEF job
  <2>2. foldersQueue' = foldersQueue
    BY <1>1, <1>7
  <2>3. Filed'
    <3> SUFFICES ASSUME NEW b, NEW p, At(b, p)' PROVE Led(foldersQueue', Len(foldersQueue'), foldersSrv'[b], p)
      BY DEF Filed, Leads
    <3>1. PICK q : At(b, q) /\ p = FO!Repath(q, job.from, job.to)
      BY <2>1
    <3>2. Leads(b, Len(foldersQueue), FO!Repath(q, job.from, job.to))
      BY <1>1, <1>4, <1>7, <3>1 DEF Orderly, Unfiled, job
    <3> QED BY <1>1, <2>2, <3>1, <3>2 DEF Leads
  <2>4. Ops' /\ Sent'
    BY <1>1, <2>2 DEF Orderly, Ops, IsOp, Sent, Leads
  <2> QED BY <1>3, <1>5, <2>1, <2>3, <2>4 DEF Orderly
<1>8. CASE job.does = "key" /\ job.then = "queue"
  <2>1. /\ Trees' /\ Mail'
        /\ \A b, p : At(b, p)' => \E q : /\ At(b, q) /\ p = FO!Repath(q, job.from, job.to)
                                         /\ (\E r \in foldersRows : r[2] = q) \/ (shown # {} /\ q = foldersOpen)
    BY <1>8, Rekeyed DEF job
  <2> DEFINE o == [op |-> "rename", folder |-> job.from, to |-> job.to]
  <2>2. foldersQueue' = Append(foldersQueue, o)
    BY <1>1, <1>8
  <2>3. o.op = "rename" /\ o.folder = job.from /\ o.to = job.to
    OBVIOUS
  <2> HIDE DEF o
  <2>4. IsOp(o)
    BY <1>2, <2>3 DEF IsOp, IsJob
  <2>5. /\ Ops' /\ Len(foldersQueue) \in Nat /\ Len(foldersQueue') = Len(foldersQueue) + 1 /\ foldersQueue'[Len(foldersQueue) + 1] = o
        /\ \A i \in 1 .. Len(foldersQueue) : foldersQueue'[i] = foldersQueue[i]
    BY <2>2, <2>4, OpAdded DEF Orderly
  <2>6. Sent'
    <3> SUFFICES ASSUME NEW i \in 1 .. Len(foldersQueue'), foldersQueue'[i].op = "change", ~foldersQueue'[i].late
                 PROVE  Led(foldersQueue', i - 1, foldersSrv'[foldersQueue'[i].box], foldersQueue'[i].folder)
      BY DEF Sent, Leads
    <3>1. i \in 1 .. Len(foldersQueue) /\ foldersQueue'[i] = foldersQueue[i]
      <4>1. i # Len(foldersQueue) + 1
        BY <2>3, <2>5
      <4> QED BY <2>5, <4>1
    <3>2. Leads(foldersQueue[i].box, i - 1, foldersQueue[i].folder)
      BY <3>1 DEF Orderly, Sent
    <3>3. i - 1 \in Nat /\ \A k \in 1 .. i - 1 : foldersQueue'[k] = foldersQueue[k]
      BY <2>5, <3>1
    <3> QED BY <1>1, <3>1, <3>2, <3>3, ReachAlike DEF Leads, Led
  <2>7. Filed'
    <3> SUFFICES ASSUME NEW b, NEW p, At(b, p)', foldersSrv[b] # FO!Gone PROVE Reach(foldersQueue', Len(foldersQueue) + 1, foldersSrv[b], p)
      BY <1>1, <2>5 DEF Filed, Leads, Led
    <3>1. PICK q : /\ At(b, q) /\ p = FO!Repath(q, job.from, job.to)
                   /\ (\E r \in foldersRows : r[2] = q) \/ (shown # {} /\ q = foldersOpen)
      BY <2>1
    <3>2. Reach(foldersQueue, Len(foldersQueue), foldersSrv[b], q)
      BY <1>4, <1>8, <3>1 DEF Orderly, Filed, Leads, Led
    <3>3. ~FO!Under(q, job.to)
      BY <1>1, <1>8, <3>1 DEF FO!Taken
    <3>4. Goes(foldersQueue'[Len(foldersQueue) + 1], q, p)
      BY <2>3, <2>5, <3>1, <3>3 DEF Goes
    <3> QED BY <2>5, <3>2, <3>4, ReachMore
  <2> QED BY <1>3, <1>5, <2>1, <2>5, <2>6, <2>7 DEF Orderly
<1> QED BY <1>2, <1>6, <1>7, <1>8 DEF IsJob
-----------------------------------------------------------------------------
LEMMA SyncKeeps ==
    ASSUME Orderly, NEW f, FO!Sync(f), ~tangled'
    PROVE  Orderly'
<1>1. /\ UNCHANGED <<foldersSrv, stored, tree, foldersOpen, foldersQueue, foldersJobs>>
      /\ foldersRows' = {r \in foldersRows : r[2] # f} \cup {<<b, f>> : b \in {c \in Boxes : foldersSrv[c] = f}}
      /\ shown' = IF foldersOpen = f THEN {b \in Boxes : <<b, f>> \in foldersRows'} ELSE shown
  BY DEF FO!Sync
<1>2. ~FO!Unsettled(f)
  BY DEF FO!Sync
<1>3. Len(foldersQueue) \in Nat /\ DOMAIN foldersQueue = 1 .. Len(foldersQueue)
  BY SeqFacts DEF Orderly, Ops
<1>4. \A r \in foldersRows' : r \in foldersRows \/ (r[1] \in Boxes /\ foldersSrv[r[1]] = f /\ r[2] = f)
  BY <1>1
<1>5. ASSUME NEW b, NEW p, At(b, p)'
      PROVE  At(b, p) \/ (foldersSrv[b] = f /\ p = f)
  <2>1. CASE \E r \in foldersRows' : r[1] = b /\ r[2] = p
    BY <1>4, <2>1 DEF At
  <2>2. CASE b \in shown' /\ p = foldersOpen'
    <3>1. CASE foldersOpen = f
      <4>1. <<b, p>> \in foldersRows' /\ <<b, p>>[1] = b /\ <<b, p>>[2] = p
        BY <1>1, <2>2, <3>1
      <4> QED BY <1>4, <4>1 DEF At
    <3>2. CASE foldersOpen # f
      BY <1>1, <2>2, <3>2 DEF At
    <3> QED BY <3>1, <3>2
  <2> QED BY <1>5, <2>1, <2>2 DEF At
<1>6. Reach(foldersQueue, Len(foldersQueue), f, f)
  <2>1. \A i \in 1 .. Len(foldersQueue) : foldersQueue[i].op = "rename" => ~FO!Under(f, foldersQueue[i].folder) /\ ~FO!Under(f, foldersQueue[i].to)
    BY <1>2, <1>3 DEF FO!Unsettled
  <2> QED BY <1>3, <2>1, ReachStill
<1>7. Mail'
  BY <1>1, <1>4 DEF Orderly, Mail
<1>8. Trees' /\ Works' /\ Ops' /\ Sent' /\ (FO!Undoing' <=> FO!Undoing)
  BY <1>1 DEF Orderly, Trees, Works, IsJob, Ops, IsOp, Sent, Leads, FO!Undoing
<1>9. Filed'
  <2> SUFFICES ASSUME ~FO!Undoing, NEW b, NEW p, At(b, p)' PROVE Led(foldersQueue, Len(foldersQueue), foldersSrv[b], p)
    BY <1>1, <1>8 DEF Filed, Leads
  <2>1. CASE At(b, p)
    BY <2>1 DEF Orderly, Filed, Leads
  <2>2. CASE foldersSrv[b] = f /\ p = f
    BY <1>6, <2>2 DEF Led
  <2> QED BY <1>5, <2>1, <2>2
<1>10. Unfiled'
  <2> SUFFICES ASSUME FO!Undoing, Len(foldersJobs) = 1, NEW b, NEW p, At(b, p)'
               PROVE  Led(foldersQueue, Len(foldersQueue), foldersSrv[b], FO!Repath(p, foldersJobs[1].from, foldersJobs[1].to))
    BY <1>1, <1>8 DEF Unfiled, Leads
  <2>1. CASE At(b, p)
    BY <2>1 DEF Orderly, Unfiled, Leads
  <2>2. CASE foldersSrv[b] = f /\ p = f
    <3>1. 1 \in DOMAIN foldersJobs /\ foldersJobs[1].then = "undo"
      <4>1. DOMAIN foldersJobs = {1}
        BY SeqFacts DEF Orderly, Works
      <4> QED BY <4>1 DEF FO!Undoing
    <3>2. ~FO!Under(f, foldersJobs[1].from)
      BY <1>2, <3>1 DEF FO!Unsettled
    <3>3. FO!Repath(p, foldersJobs[1].from, foldersJobs[1].to) = f
      BY <2>2, <3>2 DEF FO!Repath
    <3> QED BY <1>6, <2>2, <3>3 DEF Led
  <2> QED BY <1>5, <2>1, <2>2
<1> QED BY <1>7, <1>8, <1>9, <1>10 DEF Orderly

\* The first op leaves the queue.
LEMMA OpGone ==
    ASSUME Ops, foldersQueue # <<>>, foldersQueue' = Tail(foldersQueue)
    PROVE  /\ Ops' /\ Len(foldersQueue) \in Nat \ {0} /\ Head(foldersQueue) = foldersQueue[1] /\ IsOp(foldersQueue[1])
           /\ Len(foldersQueue') = Len(foldersQueue) - 1 /\ \A i \in 1 .. Len(foldersQueue') : foldersQueue'[i] = foldersQueue[i + 1]
<1>1. /\ IsSeq(foldersQueue') /\ Len(foldersQueue') = Len(foldersQueue) - 1 /\ Head(foldersQueue) = foldersQueue[1]
      /\ \A i \in 1 .. Len(foldersQueue) - 1 : foldersQueue'[i] = foldersQueue[i + 1]
  BY TailFacts DEF Ops, IsName
<1>2. Len(foldersQueue) \in Nat \ {0}
  BY SeqFacts DEF Ops
<1>3. \A i \in 1 .. Len(foldersQueue') : foldersQueue'[i] = foldersQueue[i + 1]
  BY <1>1
<1>4. ASSUME NEW i \in 1 .. Len(foldersQueue') PROVE IsOp(foldersQueue'[i])
  <2>1. i + 1 \in 1 .. Len(foldersQueue)
    BY <1>1, <1>2
  <2> QED BY <1>3, <2>1 DEF Ops
<1>5. IsOp(foldersQueue[1])
  BY <1>2 DEF Ops
<1> QED BY <1>1, <1>2, <1>3, <1>4, <1>5 DEF Ops, IsOp

LEMMA ConfirmKeeps ==
    ASSUME Orderly, FO!Confirm, missed = FALSE
    PROVE  missed' = FALSE /\ (~tangled' => Orderly')
<1> DEFINE op == Head(foldersQueue)
<1>1. foldersQueue # <<>> /\ foldersQueue' = Tail(foldersQueue) /\ UNCHANGED <<foldersRows, stored, tree, foldersOpen, shown>>
  BY DEF FO!Confirm
<1>2. /\ Ops' /\ Len(foldersQueue) \in Nat \ {0} /\ op = foldersQueue[1] /\ IsOp(op)
  BY <1>1, OpGone DEF Orderly
<1> HIDE DEF op
<1>3. Mail' /\ \A b, p : At(b, p)' => At(b, p)
  BY <1>1 DEF Orderly, Mail, At
<1>4. ASSUME Works', Quieter,
             \A b \in Boxes : IsSeq(foldersSrv'[b]),
             \A b \in Boxes : foldersSrv'[b] # FO!Gone => foldersSrv[b] # FO!Gone /\ \A y : Goes(op, foldersSrv[b], y) => y = foldersSrv'[b]
      PROVE  Orderly'
  <2>1. Sent' /\ Filed' /\ Unfiled'
    BY <1>1, <1>2, <1>3, <1>4, Popped
  <2>2. Trees'
    BY <1>1, <1>4 DEF Orderly, Trees
  <2> QED BY <1>2, <1>3, <1>4, <2>1, <2>2 DEF Orderly
<1>5. foldersJobs' = foldersJobs => Works' /\ Quieter
  BY DEF Orderly, Works, IsJob, Quieter, FO!Undoing
<1>6. CASE /\ op.op = "change"
           /\ missed' = (missed \/ (~op.late /\ ~tangled /\ foldersSrv[op.box] # op.folder /\ foldersSrv[op.box] # FO!Gone))
           /\ UNCHANGED <<foldersSrv, foldersJobs, tangled>>
  <2>1. ~(~op.late /\ foldersSrv[op.box] # op.folder /\ foldersSrv[op.box] # FO!Gone)
    <3> SUFFICES ASSUME ~op.late, foldersSrv[op.box] # FO!Gone PROVE foldersSrv[op.box] = op.folder
      OBVIOUS
    <3>1. Leads(op.box, 1 - 1, op.folder)
      BY <1>2, <1>6 DEF Orderly, Sent
    <3>2. Reach(foldersQueue, 0, foldersSrv[op.box], op.folder)
      BY <3>1 DEF Leads, Led
    <3> QED BY <3>2, ReachNone
  <2>2. missed' = FALSE
    BY <1>6, <2>1
  <2>3. Orderly'
    BY <1>4, <1>5, <1>6 DEF Goes, Orderly, Trees
  <2> QED BY <2>2, <2>3
<1>7. CASE /\ op.op = "rename" /\ FO!Exists(op.folder)
           /\ foldersSrv' = [b \in Boxes |-> IF foldersSrv[b] = FO!Gone THEN FO!Gone ELSE FO!Repath(foldersSrv[b], op.folder, op.to)]
           /\ UNCHANGED <<foldersJobs, tangled, missed>>
  <2>1. IsName(op.folder) /\ IsName(op.to)
    BY <1>2, <1>7 DEF IsOp
  <2>2. ASSUME NEW b \in Boxes PROVE IsSeq(foldersSrv'[b])
    <3>1. IsSeq(foldersSrv[b]) /\ foldersSrv'[b] = IF foldersSrv[b] = FO!Gone THEN FO!Gone ELSE FO!Repath(foldersSrv[b], op.folder, op.to)
      BY <1>7 DEF Orderly, Trees
    <3>2. CASE foldersSrv[b] = FO!Gone
      BY <3>1, <3>2
    <3>3. CASE foldersSrv[b] # FO!Gone
      BY <2>1, <3>1, <3>3, RepathNamed DEF IsName, FO!Gone
    <3> QED BY <3>2, <3>3
  <2>3. ASSUME NEW b \in Boxes, foldersSrv'[b] # FO!Gone PROVE foldersSrv[b] # FO!Gone /\ \A y : Goes(op, foldersSrv[b], y) => y = foldersSrv'[b]
    BY <1>7, <2>3 DEF Goes
  <2>4. Orderly'
    BY <1>4, <1>5, <1>7, <2>2, <2>3
  <2> QED BY <1>7, <2>4
<1>8. CASE /\ op.op = "delete" /\ FO!Exists(op.folder)
           /\ foldersSrv' = [b \in Boxes |-> IF foldersSrv[b] = op.folder THEN FO!Gone ELSE foldersSrv[b]]
           /\ FO!Purge(op.folder) /\ UNCHANGED <<tangled, missed>>
  <2>1. IsName(op.folder)
    BY <1>2, <1>8 DEF IsOp
  <2> DEFINE j == [does |-> "purge", from |-> op.folder, to |-> op.folder, then |-> "nothing"]
  <2>2. foldersJobs' = Append(foldersJobs, j)
    BY <1>8 DEF FO!Purge
  <2>3. IsJob(j) /\ j.then # "undo"
    BY <2>1 DEF IsJob
  <2> HIDE DEF j
  <2>4. Works' /\ Quieter
    BY <2>2, <2>3, JobAdded DEF Orderly
  <2>5. \A b \in Boxes : IsSeq(foldersSrv'[b])
    <3>1. IsSeq(FO!Gone)
      <4>1. <<>> \in Seq({})
        OBVIOUS
      <4> QED BY <4>1 DEF IsSeq, FO!Gone
    <3> QED BY <1>8, <3>1 DEF Orderly, Trees
  <2>6. ASSUME NEW b \in Boxes, foldersSrv'[b] # FO!Gone PROVE foldersSrv[b] # FO!Gone /\ \A y : Goes(op, foldersSrv[b], y) => y = foldersSrv'[b]
    BY <1>8, <2>6 DEF Goes
  <2>7. Orderly'
    BY <1>4, <2>4, <2>5, <2>6
  <2> QED BY <1>8, <2>7
<1>9. CASE /\ op.op \in {"rename", "delete"} /\ ~FO!Exists(op.folder)
           /\ tangled' = (tangled \/ (op.op = "rename" /\ FO!Hollow(op.folder)))
           /\ UNCHANGED <<foldersSrv, foldersJobs, missed>>
  <2> SUFFICES ASSUME ~tangled' PROVE Orderly'
    BY <1>9
  <2>1. ASSUME NEW b \in Boxes, foldersSrv[b] # FO!Gone, NEW y, Goes(op, foldersSrv[b], y) PROVE y = foldersSrv[b]
    <3>1. CASE op.op = "rename"
      <4>1. ~FO!Under(foldersSrv[b], op.folder)
        BY <1>9, <2>1, <3>1 DEF FO!Hollow
      <4> QED BY <2>1, <3>1, <4>1 DEF Goes, FO!Repath
    <3>2. CASE op.op = "delete"
      BY <2>1, <3>2 DEF Goes
    <3> QED BY <1>9, <3>1, <3>2
  <2> QED BY <1>4, <1>5, <1>9, <2>1 DEF Orderly, Trees
<1> QED BY <1>6, <1>7, <1>8, <1>9 DEF FO!Confirm, op
-----------------------------------------------------------------------------
\* A rename that no other follows is refused: what it led to leads back.
LEMMA RefusedKeeps ==
    ASSUME Orderly, FO!Refuse, Head(foldersQueue).op = "rename", ~tangled'
    PROVE  Orderly'
<1>1. PICK o : o = Head(foldersQueue)
  OBVIOUS
<1> DEFINE j == [does |-> "key", from |-> o.to, to |-> o.folder, then |-> "undo"]
           back(p) == FO!Repath(p, o.to, o.folder)
<1>2. /\ foldersQueue # <<>> /\ foldersQueue' = FO!RewriteJournalFolder(Tail(foldersQueue), o.to, o.folder)
      /\ \A i \in 2 .. Len(foldersQueue) : foldersQueue[i].op # "rename"
      /\ foldersJobs' = Append(foldersJobs, j) /\ UNCHANGED <<foldersSrv, foldersRows, stored, tree, foldersOpen, shown>>
  BY <1>1 DEF FO!Refuse, FO!Rekey
<1>3. IsName(foldersQueue) /\ Len(foldersQueue) \in Nat \ {0}
  BY <1>2, SeqFacts DEF Orderly, Ops, IsName
<1>4. PICK rest : rest = Tail(foldersQueue)
  OBVIOUS
<1>5. /\ IsSeq(rest) /\ Len(rest) = Len(foldersQueue) - 1 /\ o = foldersQueue[1] /\ DOMAIN rest = 1 .. Len(foldersQueue) - 1
      /\ \A i \in 1 .. Len(foldersQueue) - 1 : rest[i] = foldersQueue[i + 1]
  BY <1>1, <1>3, <1>4, TailFacts, SeqFacts
<1>6. o.op = "rename" /\ IsName(o.folder) /\ IsName(o.to)
  <2>1. 1 \in 1 .. Len(foldersQueue)
    BY <1>3
  <2> QED BY <1>1, <1>5, <2>1 DEF Orderly, Ops, IsOp
<1>7. ASSUME NEW i \in 1 .. Len(foldersQueue) - 1
      PROVE  IsOp(rest[i]) /\ rest[i].op # "rename" /\ rest[i] = foldersQueue[i + 1] /\ i + 1 \in 1 .. Len(foldersQueue)
  <2>1. i + 1 \in 2 .. Len(foldersQueue) /\ i + 1 \in 1 .. Len(foldersQueue)
    BY <1>3
  <2> QED BY <1>2, <1>5, <2>1 DEF Orderly, Ops
<1>8. foldersQueue' = [i \in 1 .. Len(foldersQueue) - 1 |->
                  IF rest[i].op = "rename"
                  THEN [rest[i] EXCEPT !.folder = FO!Repath(@, o.to, o.folder), !.to = FO!Repath(@, o.to, o.folder)]
                  ELSE [rest[i] EXCEPT !.folder = FO!Repath(@, o.to, o.folder)]]
  BY <1>2, <1>4, <1>5 DEF FO!RewriteJournalFolder
<1>9. ASSUME NEW i \in 1 .. Len(foldersQueue) - 1
      PROVE  foldersQueue'[i] = [rest[i] EXCEPT !.folder = back(rest[i].folder)]
  BY <1>7, <1>8
<1>10. IsSeq(foldersQueue') /\ Len(foldersQueue') = Len(foldersQueue) - 1
  <2> DEFINE T == {foldersQueue'[i] : i \in 1 .. Len(foldersQueue) - 1}
  <2>1. foldersQueue' \in [1 .. Len(foldersQueue) - 1 -> T]
    BY <1>8
  <2>2. foldersQueue' \in Seq(T)
    BY <1>3, <2>1
  <2> QED BY <1>3, <2>1, <2>2 DEF IsSeq
<1> HIDE DEF back
<1>11. ASSUME NEW i \in 1 .. Len(foldersQueue')
       PROVE  /\ i \in 1 .. Len(foldersQueue) - 1 /\ foldersQueue'[i].op = rest[i].op /\ foldersQueue'[i].folder = back(rest[i].folder)
              /\ IsOp(foldersQueue'[i])
              /\ rest[i].op = "change" => foldersQueue'[i].box = rest[i].box /\ foldersQueue'[i].late = rest[i].late
  <2>1. i \in 1 .. Len(foldersQueue) - 1
    BY <1>10
  <2>2. PICK x : x = rest[i]
    OBVIOUS
  <2>3. PICK y : y = foldersQueue'[i]
    OBVIOUS
  <2>4. y = [x EXCEPT !.folder = back(x.folder)] /\ IsOp(x) /\ x.op # "rename"
    BY <1>7, <1>9, <2>1, <2>2, <2>3
  <2>5. CASE x.op = "change" /\ x.box \in Boxes /\ DOMAIN x = {"op", "folder", "box", "late"}
    <3>1. /\ y.op = x.op /\ y.folder = back(x.folder) /\ y.box = x.box /\ y.late = x.late
          /\ DOMAIN y = {"op", "folder", "box", "late"}
      BY <2>4, <2>5
    <3>2. IsOp(y)
      BY <2>5, <3>1 DEF IsOp
    <3> QED BY <2>1, <2>2, <2>3, <3>1, <3>2
  <2>6. CASE x.op = "delete" /\ IsName(x.folder) /\ DOMAIN x = {"op", "folder"}
    <3>1. y.op = x.op /\ y.folder = back(x.folder) /\ DOMAIN y = {"op", "folder"}
      BY <2>4, <2>6
    <3>2. IsName(back(x.folder))
      BY <1>6, <2>6, RepathNamed DEF back
    <3>3. IsOp(y)
      BY <2>6, <3>1, <3>2 DEF IsOp
    <3> QED BY <2>1, <2>2, <2>3, <2>6, <3>1, <3>3
  <2> QED BY <2>4, <2>5, <2>6 DEF IsOp
<1>12. Ops'
  BY <1>10, <1>11 DEF Ops, IsOp
<1>13. ASSUME NEW b \in Boxes, NEW p, NEW k \in Nat \ {0}, k <= Len(foldersQueue), Leads(b, k, p)
       PROVE  Led(foldersQueue', k - 1, foldersSrv'[b], back(p))
  <2> SUFFICES ASSUME foldersSrv[b] # FO!Gone PROVE Reach(foldersQueue', k - 1, foldersSrv[b], back(p))
    BY <1>2 DEF Led
  <2>1. Reach(foldersQueue, k, foldersSrv[b], p) /\ \A i \in 1 .. k - 1 : rest[i] = foldersQueue[i + 1]
    BY <1>3, <1>5, <1>13 DEF Leads, Led
  <2>2. PICK x : Goes(o, foldersSrv[b], x) /\ Reach(rest, k - 1, x, p)
    BY <1>5, <2>1, ReachLess
  <2>3. \A i \in 1 .. k - 1 : rest[i].op # "rename" /\ foldersQueue'[i].op # "rename"
    <3> TAKE i \in 1 .. k - 1
    <3>1. i \in 1 .. Len(foldersQueue) - 1 /\ i \in 1 .. Len(foldersQueue')
      BY <1>3, <1>10, <1>13
    <3> QED BY <1>7, <1>11, <3>1
  <2>4. p = x
    BY <2>2, <2>3, ReachAtHome
  <2>5. p = FO!Repath(foldersSrv[b], o.folder, o.to) /\ (FO!Under(foldersSrv[b], o.folder) \/ ~FO!Under(foldersSrv[b], o.to))
    BY <1>6, <2>2, <2>4 DEF Goes
  <2>6. back(p) = foldersSrv[b]
    BY <1>6, <2>5, RepathBack DEF Orderly, Trees, IsName, back
  <2>7. Reach(foldersQueue', k - 1, foldersSrv[b], foldersSrv[b])
    BY <2>3, ReachStill
  <2> QED BY <2>6, <2>7
<1>14. Sent'
  <2> SUFFICES ASSUME NEW i \in 1 .. Len(foldersQueue'), foldersQueue'[i].op = "change", ~foldersQueue'[i].late
               PROVE  Led(foldersQueue', i - 1, foldersSrv'[foldersQueue'[i].box], foldersQueue'[i].folder)
    BY DEF Sent, Leads
  <2>1. /\ rest[i].op = "change" /\ foldersQueue'[i].box = rest[i].box /\ foldersQueue'[i].late = rest[i].late
        /\ foldersQueue'[i].folder = back(rest[i].folder) /\ i \in 1 .. Len(foldersQueue) - 1
    BY <1>11
  <2>2. PICK c : c = foldersQueue[i + 1] /\ c = rest[i]
    BY <1>7, <2>1
  <2>3. ~c.late /\ c.op = "change" /\ c.box \in Boxes
    <3>1. ~c.late
      BY <2>1, <2>2
    <3>2. c.op = "change" /\ IsOp(c)
      BY <1>7, <2>1, <2>2
    <3> QED BY <3>1, <3>2 DEF IsOp
  <2>4. Leads(c.box, (i + 1) - 1, c.folder)
    BY <1>7, <2>1, <2>2, <2>3 DEF Orderly, Sent
  <2>5. (i + 1) - 1 = i /\ i \in Nat \ {0} /\ i <= Len(foldersQueue)
    BY <1>3, <2>1
  <2>6. Leads(c.box, i, c.folder)
    BY <2>4, <2>5
  <2> QED BY <1>13, <2>1, <2>2, <2>3, <2>5, <2>6
<1>15. /\ Len(foldersJobs) \in Nat /\ IsSeq(foldersJobs') /\ Len(foldersJobs') = Len(foldersJobs) + 1 /\ foldersJobs'[Len(foldersJobs) + 1] = j
       /\ \A i \in 1 .. Len(foldersJobs) : foldersJobs'[i] = foldersJobs[i]
  BY <1>2, AppendFacts, SeqFacts DEF Orderly, Works
<1>16. IsJob(j) /\ j.then = "undo" /\ j.from = o.to /\ j.to = o.folder
  BY <1>6 DEF IsJob
<1> HIDE DEF j
<1>17. Works'
  <2>1. ASSUME NEW i \in 1 .. Len(foldersJobs') PROVE IsJob(foldersJobs'[i])
    <3>1. i = Len(foldersJobs) + 1 \/ i \in 1 .. Len(foldersJobs)
      BY <1>15
    <3> QED BY <1>15, <1>16, <3>1 DEF Orderly, Works
  <2> QED BY <1>15, <2>1 DEF Works, IsJob
<1>18. FO!Undoing'
  <2>1. Len(foldersJobs) + 1 \in DOMAIN foldersJobs'
    BY <1>15, SeqFacts
  <2> QED BY <1>15, <1>16, <2>1 DEF FO!Undoing
<1>19. Filed'
  BY <1>18 DEF Filed
<1>20. Unfiled'
  <2> SUFFICES ASSUME Len(foldersJobs') = 1, NEW b, NEW p, At(b, p)
               PROVE  Led(foldersQueue', Len(foldersQueue'), foldersSrv'[b], FO!Repath(p, foldersJobs'[1].from, foldersJobs'[1].to))
    BY <1>2 DEF Unfiled, Leads, At
  <2>1. Len(foldersJobs) = 0
    <3>1. Len(foldersJobs) \in Nat /\ Len(foldersJobs) + 1 = 1
      BY <1>15
    <3> QED BY <3>1
  <2>2. ~FO!Undoing /\ foldersJobs'[1] = j
    <3>1. DOMAIN foldersJobs = {}
      BY <2>1, SeqFacts DEF Orderly, Works
    <3> QED BY <1>15, <2>1, <3>1 DEF FO!Undoing
  <2>3. Leads(b, Len(foldersQueue), p) /\ b \in Boxes
    BY <2>2 DEF Orderly, Filed, At, Mail
  <2>4. Led(foldersQueue', Len(foldersQueue) - 1, foldersSrv'[b], back(p))
    BY <1>3, <1>13, <2>3
  <2>5. back(p) = FO!Repath(p, foldersJobs'[1].from, foldersJobs'[1].to)
    BY <1>16, <2>2 DEF back
  <2> QED BY <1>10, <2>4, <2>5
<1>21. Trees' /\ Mail'
  BY <1>2 DEF Orderly, Trees, Mail
<1> QED BY <1>12, <1>14, <1>17, <1>19, <1>20, <1>21 DEF Orderly

LEMMA RefuseKeeps ==
    ASSUME Orderly, FO!Refuse, ~tangled'
    PROVE  Orderly'
<1>1. CASE Head(foldersQueue).op = "rename"
  BY <1>1, RefusedKeeps
<1>2. CASE Head(foldersQueue).op = "delete"
  <2>1. PICK o : o = Head(foldersQueue)
    OBVIOUS
  <2>2. /\ foldersQueue # <<>> /\ foldersQueue' = Tail(foldersQueue) /\ stored' = stored \cup {o.folder} /\ tree' = stored'
        /\ UNCHANGED <<foldersSrv, foldersRows, foldersOpen, shown, foldersJobs>>
    BY <1>2, <2>1 DEF FO!Refuse
  <2>3. Ops' /\ o = foldersQueue[1] /\ IsOp(o)
    BY <2>1, <2>2, OpGone DEF Orderly
  <2>4. IsName(o.folder)
    BY <1>2, <2>1, <2>3 DEF IsOp
  <2>5. Trees'
    <3>1. IsFiniteSet(stored \cup {o.folder})
      BY FS_AddElement DEF Orderly, Trees
    <3> QED BY <2>2, <2>4, <3>1 DEF Orderly, Trees
  <2>6. Mail' /\ Works' /\ Quieter /\ \A b, p : At(b, p)' => At(b, p)
    BY <2>2 DEF Orderly, Mail, Works, IsJob, Quieter, FO!Undoing, At
  <2>7. \A b \in Boxes : foldersSrv'[b] # FO!Gone => foldersSrv[b] # FO!Gone /\ \A y : Goes(foldersQueue[1], foldersSrv[b], y) => y = foldersSrv'[b]
    BY <1>2, <2>1, <2>2, <2>3 DEF Goes
  <2>8. Sent' /\ Filed' /\ Unfiled'
    BY <2>2, <2>6, <2>7, Popped
  <2> QED BY <2>3, <2>5, <2>6, <2>8 DEF Orderly
<1> QED BY <1>1, <1>2 DEF FO!Refuse

-----------------------------------------------------------------------------
LEMMA FoldersStart ==
    ASSUME FO!FolderOpsAssumption, FO!Init
    PROVE  FoldersInv
<1>1. IsSeq(<<>>) /\ Len(<<>>) = 0 /\ DOMAIN <<>> = {}
  <2>1. <<>> \in Seq({})
    OBVIOUS
  <2> QED BY <2>1 DEF IsSeq
<1>2. Works /\ Ops /\ Sent /\ ~FO!Undoing
  BY <1>1 DEF FO!Init, Works, Ops, Sent, FO!Undoing
<1>3. \A b \in Boxes : foldersSrv[b] = b /\ IsSeq(b)
  BY DEF FO!Init, FO!FolderOpsAssumption, IsSeq
<1>4. IsFiniteSet(FO!Paths) /\ \A p \in FO!Paths : IsName(p)
  <2> DEFINE S == {foldersSrv[b] : b \in Boxes}
  <2>1. IsFiniteSet(S) /\ IsFiniteSet({p \in S : p # FO!Gone})
    <3>1. IsFiniteSet(S)
      BY ImagesAreFinite, SameCounts DEF FO!FolderOpsAssumption
    <3> QED BY <3>1, FS_Subset
  <2>2. FO!Paths = ({p \in S : p # FO!Gone} \cup {FO!Inbox}) \cup {FO!Trash}
    BY DEF FO!Paths
  <2>3. IsFiniteSet({p \in S : p # FO!Gone} \cup {FO!Inbox})
    BY <2>1, FS_AddElement
  <2>4. IsFiniteSet(FO!Paths)
    BY <2>2, <2>3, FS_AddElement
  <2>5. \A p \in FO!Paths : IsName(p)
    BY <1>3, <2>2, SomeNames DEF IsName, FO!Gone
  <2> QED BY <2>4, <2>5
<1>5. Trees
  BY <1>3, <1>4 DEF FO!Init, Trees
<1>6. \A r \in foldersRows : r[1] \in Boxes /\ r[2] = foldersSrv[r[1]]
  BY <1>3 DEF FO!Init
<1>7. Mail
  BY <1>6 DEF FO!Init, Mail
<1>8. Filed
  <2> SUFFICES ASSUME NEW b, NEW p, At(b, p) PROVE Leads(b, Len(foldersQueue), p)
    BY DEF Filed
  <2>1. p = foldersSrv[b]
    BY <1>6 DEF At, FO!Init
  <2>2. Len(foldersQueue) = 0
    BY <1>1 DEF FO!Init
  <2> QED BY <2>1, <2>2, ReachNone DEF Leads, Led
<1>9. missed = FALSE /\ tangled \in BOOLEAN
  BY DEF FO!Init
<1> QED BY <1>2, <1>5, <1>7, <1>8, <1>9 DEF FoldersInv, Orderly, Unfiled

LEMMA FoldersStay ==
    ASSUME FO!FolderOpsAssumption, FoldersInv, [FO!Next]_(FO!vars)
    PROVE  FoldersInv'
<1>1. CASE UNCHANGED FO!vars
  BY <1>1 DEF FO!vars, FoldersInv, Orderly, Trees, Mail, Works, IsJob, Ops, IsOp, Sent, Filed, Unfiled, Leads, At, FO!Undoing
<1>2. CASE FO!Next
  <2>1. tangled' \in BOOLEAN /\ (tangled => tangled')
    BY <1>2 DEF FO!Next, FO!MoveFolder, FO!RenameFolder, FO!DeleteFolder, FO!Change, FO!Gesture, FO!OpenFolder, FO!Sync, FO!JobDone, FO!Ended, FO!Listing, FO!Confirm, FO!Refuse,
         FoldersInv
  <2>2. CASE tangled = TRUE
    <3>1. missed' = FALSE
      <4>1. ASSUME FO!Confirm PROVE missed' = FALSE
        BY <2>2, <4>1 DEF FO!Confirm, FoldersInv
      <4> QED BY <1>2, <4>1 DEF FO!Next, FO!MoveFolder, FO!RenameFolder, FO!DeleteFolder, FO!Change, FO!Gesture, FO!OpenFolder, FO!Sync, FO!JobDone, FO!Ended, FO!Listing,
           FO!Refuse, FoldersInv
    <3> QED BY <2>1, <2>2, <3>1 DEF FoldersInv
  <2>3. CASE tangled = FALSE
    <3>1. Orderly /\ missed = FALSE
      BY <2>3 DEF FoldersInv
    <3>2. missed' = FALSE /\ (~tangled' => Orderly')
      <4>1. ASSUME NEW p \in tree, NEW q \in Parents, FO!MoveFolder(p, q) PROVE Orderly' /\ missed' = FALSE
        BY <3>1, <4>1, MoveKeeps DEF FO!MoveFolder, FO!Gesture
      <4>2. ASSUME NEW p \in tree, NEW n \in Leaves, FO!RenameFolder(p, n) PROVE Orderly' /\ missed' = FALSE
        BY <3>1, <4>2, RenameFolderKeeps DEF FO!RenameFolder, FO!Gesture
      <4>3. ASSUME NEW p \in tree, FO!DeleteFolder(p) PROVE Orderly' /\ missed' = FALSE
        BY <3>1, <4>3, DeleteKeeps DEF FO!DeleteFolder, FO!Gesture
      <4>4. ASSUME NEW p \in tree, FO!OpenFolder(p) PROVE Orderly' /\ missed' = FALSE
        BY <3>1, <4>4, OpenKeeps DEF FO!OpenFolder
      <4>5. ASSUME NEW p \in tree, FO!Sync(p) PROVE missed' = FALSE /\ (~tangled' => Orderly')
        BY <3>1, <4>5, SyncKeeps DEF FO!Sync
      <4>6. ASSUME NEW b \in Boxes, FO!Change(b) PROVE Orderly' /\ missed' = FALSE
        BY <3>1, <4>6, ChangeKeeps DEF FO!Change, FO!Gesture
      <4>7. CASE FO!JobDone
        BY <3>1, <4>7, DoneKeeps DEF FO!JobDone
      <4>8. CASE FO!Ended
        BY <3>1, <4>8 DEF FO!Ended
      <4>9. CASE FO!Listing
        BY <3>1, <4>9, ListingKeeps DEF FO!Listing
      <4>10. CASE FO!Confirm
        BY <3>1, <4>10, ConfirmKeeps
      <4>11. CASE FO!Refuse
        BY <3>1, <4>11, RefuseKeeps DEF FO!Refuse
      <4> QED BY <1>2, <4>1, <4>2, <4>3, <4>4, <4>5, <4>6, <4>7, <4>8, <4>9, <4>10, <4>11 DEF FO!Next
    <3> QED BY <2>1, <3>2 DEF FoldersInv
  <2> QED BY <2>2, <2>3 DEF FoldersInv
<1> QED BY <1>1, <1>2

LEMMA FoldersMean ==
    ASSUME FoldersInv
    PROVE  FO!ChangesReachTheirFolder
BY DEF FoldersInv, FO!ChangesReachTheirFolder

(***************************************************************************)
(* What a behaviour that follows one of the two does to it.                *)
(***************************************************************************)

LEMMA PartStarts ==
    ASSUME Init
    PROVE  /\ followed = "reading" => RP!Init
           /\ followed = "folders" => FO!Init
BY DEF Init

LEMMA PartSteps ==
    ASSUME [Next]_vars
    PROVE  /\ followed' = followed
           /\ followed = "reading" => [RP!Next]_(RP!vars)
           /\ followed = "folders" => [FO!Next]_(FO!vars)
<1>1. CASE UNCHANGED vars
  <2>1. UNCHANGED <<followed, varsRP, varsFO>>
    BY <1>1 DEF vars
  <2>2. UNCHANGED RP!vars
    BY <2>1 DEF varsRP, RP!vars, RP!pane, RP!fetch, RP!dkim
  <2>3. UNCHANGED FO!vars
    BY <2>1 DEF varsFO, FO!vars
  <2> QED BY <2>1, <2>2, <2>3
<1>2. CASE Next
  BY <1>2 DEF Next
<1> QED BY <1>1, <1>2

-----------------------------------------------------------------------------
(* The theorems.                                                            *)

\* Once nothing is loading, the message in the pane is the one its row names; a
\* badge that says "checking" is being checked; and a message is recorded as
\* failed or modified only where what arrived does fail: through clicks that
\* overtake bodies, the retries and refetches of a check, gpg's answers and a
\* window detached in the middle of them (the last where no answer, retry or
\* window met what the findings describe).
THEOREM ReadingStaysHonest ==
    ASSUME DeskAssumption
    PROVE  Spec => []ReadingIsHonest
<1> DEFINE Inv == followed = "reading" => ReadInv
<1>1. RP!ReadingPaneAssumption
  BY DEF DeskAssumption
<1>2. Init => Inv
  BY <1>1, PartStarts, ReadStarts
<1>3. Inv /\ [Next]_vars => Inv'
  <2> SUFFICES ASSUME Inv, [Next]_vars, followed' = "reading" PROVE ReadInv'
    OBVIOUS
  <2>1. followed = "reading" /\ [RP!Next]_(RP!vars)
    BY PartSteps
  <2> QED BY <1>1, <2>1, ReadStays
<1>4. Inv => ReadingIsHonest
  BY ReadMeans DEF ReadingIsHonest
<1> QED BY <1>2, <1>3, <1>4, PTL DEF Spec

\* A change to a message reaches the folder its mail is in: no queued change is
\* sent for another, through renames and moves that carry subtrees along,
\* deletions, refusals and the undoing of what the server refused (while no two
\* mailboxes have come under one name, nor a worker met what it replaces).
THEOREM ChangesAlwaysReach ==
    ASSUME DeskAssumption
    PROVE  Spec => []ChangesReachTheirFolder
<1> DEFINE Inv == followed = "folders" => FoldersInv
<1>1. FO!FolderOpsAssumption
  BY DEF DeskAssumption
<1>2. Init => Inv
  BY <1>1, PartStarts, FoldersStart
<1>3. Inv /\ [Next]_vars => Inv'
  <2> SUFFICES ASSUME Inv, [Next]_vars, followed' = "folders" PROVE FoldersInv'
    OBVIOUS
  <2>1. followed = "folders" /\ [FO!Next]_(FO!vars)
    BY PartSteps
  <2> QED BY <1>1, <2>1, FoldersStay
<1>4. Inv => ChangesReachTheirFolder
  BY FoldersMean DEF ChangesReachTheirFolder
<1> QED BY <1>2, <1>3, <1>4, PTL DEF Spec
===============================================================================
