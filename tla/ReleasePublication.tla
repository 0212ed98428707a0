------------------------- MODULE ReleasePublication -------------------------
(* scripts/release_versioned.py, release_state.py and release_control.py: how *)
(* a run of the release workflow gets from a commit to a public release.      *)
(*                                                                            *)
(* A run reserves a version and a build number in a ledger, builds, claims    *)
(* the number, and creates the tag and a draft, which it fills, verifies and  *)
(* makes public; a later run may promote a release candidate unchanged.  The  *)
(* workflow's concurrency group lets one run in at a time, but a run may fail *)
(* after any request, done but unanswered, and be run again when others came  *)
(* between.  Commits and deletions by maintainers come at any time.           *)
EXTENDS Integers, FiniteSets, FiniteSetsExt

CONSTANTS
  None,
  Runs,         \* 1 .. n, in the order in which they are started
  Failures,     \* bound: failures
  Commits,      \* bound: commits of the default branch
  Bases,        \* 1 .. n: base versions
  Deletions,    \* bound: releases and tags deleted by maintainers
  Dispatched    \* bound: the runs that may be dispatched for a candidate

VARIABLES
  head, base,   \* the default branch, and the base version of each commit
  ledger,       \* release-version-state.json
  refs,         \* the tags, each with its commit
  releases,     \* the releases and drafts
  run,          \* the runs
  shipped,      \* every tag ever made public, with its build number
  deleted,      \* deletions so far
  failed        \* failures so far

rvars == <<head, base, ledger, refs, releases, run, shipped, deleted, failed>>

Candidates == {"nightly", "beta", "rc"}
Plans == [base : Bases, channel : Candidates, sequence : Nat, sha : 1 .. Commits, number : Nat]
Ended == {"unstarted", "failed", "skipped", "published"}

TypeOK ==
  /\ head \in 1 .. Commits /\ base \in [1 .. Commits -> Bases] /\ deleted \in 0 .. Deletions /\ failed \in 0 .. Failures
  /\ ledger.counter \in Nat /\ ledger.floor \in 0 .. ledger.counter
  /\ \A r \in Runs : ledger.plans[r] \in {None} \cup Plans
  /\ \A r \in Runs : run[r].sha \in 0 .. Commits
  /\ \A x \in releases : x.draft \in BOOLEAN /\ x.full \in BOOLEAN

Init ==
  /\ head = 1 /\ base \in [1 .. Commits -> Bases] /\ \A c \in 2 .. Commits : base[c - 1] <= base[c]
  /\ ledger = [counter |-> 0, floor |-> 0, plans |-> [r \in Runs |-> None]]
  /\ refs = {} /\ releases = {} /\ shipped = {} /\ deleted = 0 /\ failed = 0
  /\ run = [r \in Runs |-> [at |-> "unstarted", channel |-> None, sha |-> 0, rc |-> None,
                          auto |-> FALSE, source |-> 0]]

-----------------------------------------------------------------------------
(* Tags *)

StableTag(b) == [base |-> b, channel |-> "stable", sequence |-> 0]
CandidateTag(p) == [base |-> p.base, channel |-> p.channel, sequence |-> p.sequence]

\* The plan a run publishes: its own, or that of the candidate it promotes
PlanOf(r) ==
  IF run[r].channel = "stable"
    THEN CHOOSE p \in {ledger.plans[s] : s \in Runs} \ {None} : CandidateTag(p) = run[r].rc
    ELSE ledger.plans[r]
TagOf(r) == IF run[r].channel = "stable" THEN StableTag(PlanOf(r).base) ELSE CandidateTag(PlanOf(r))

Taken == {x.tag : x \in refs \cup releases}
Public == {x.tag : x \in {y \in releases : ~y.draft}}

\* ensure_absent: neither a tag nor a release nor a draft
Absent(tag) == tag \notin Taken

Reserved == {ledger.plans[r] : r \in Runs} \ {None}

\* Mutant: only what GitHub still shows counts.
FaultyNextSequence(b, channel) ==
  1 + Max({0} \cup {t.sequence : t \in {u \in Taken : u.base = b /\ u.channel = channel}})

\* next_sequence and reserve_plan: what GitHub shows and what is reserved
NextSequence(b, channel) ==
  1 + Max({0} \cup {t.sequence : t \in {u \in Taken \cup {CandidateTag(p) : p \in Reserved} :
                                          u.base = b /\ u.channel = channel}})

-----------------------------------------------------------------------------
(* Runs of the workflow *)

\* The concurrency group of release-pipeline.yml
GroupFree == \A r \in Runs : run[r].at \in Ended

\* What made a published run no longer matters.
Goes(r, at) ==
  run' = [run EXCEPT ![r].at = at, ![r].source = IF at \in Ended THEN 0 ELSE @, ![r].auto = @ /\ at # "published"]

\* A push makes a beta and the schedule a nightly, automatically (auto); every
\* channel may be dispatched; a candidate to promote is public (release_snapshot).
Start(r, channel, rc, auto) ==
  /\ GroupFree /\ run[r].at = "unstarted" /\ \A s \in Runs : s < r => run[s].at # "unstarted"
  /\ IF auto THEN channel \in {"nightly", "beta"} ELSE channel = "stable" \/ r \in Dispatched
  /\ IF channel = "stable" THEN rc \in {t \in Public : t.channel = "rc"} ELSE rc = None
  /\ run' = [run EXCEPT ![r] = [at |-> IF channel = "stable" THEN "check" ELSE "reserve",
                                channel |-> channel, sha |-> head, rc |-> rc, auto |-> auto, source |-> 0]]
  /\ UNCHANGED <<head, base, ledger, refs, releases, shipped, deleted, failed>>

\* All jobs again: a gate from an earlier attempt does not count.
Rerun(r) ==
  /\ GroupFree /\ run[r].at \in {"failed", "skipped"}
  /\ Goes(r, IF run[r].channel = "stable" THEN "check" ELSE "reserve")
  /\ UNCHANGED <<head, base, ledger, refs, releases, shipped, deleted, failed>>

\* A read that failed three times, a refused write, a check that does not hold,
\* a cancelled job or a lost runner
Fail(r) ==
  /\ run[r].at \notin Ended /\ failed < Failures
  /\ Goes(r, "failed") /\ failed' = failed + 1
  /\ UNCHANGED <<head, base, ledger, refs, releases, shipped, deleted>>

-----------------------------------------------------------------------------
(* release_versioned.py prepare *)

\* closed_push_cycle, and a base that is out already
Closed(r) ==
  /\ run[r].at = "reserve" /\ run[r].channel \in {"beta", "rc"} /\ ~Absent(StableTag(base[run[r].sha]))
  /\ Goes(r, "skipped")
  /\ UNCHANGED <<head, base, ledger, refs, releases, shipped, deleted, failed>>

\* reserve_plan: "Allocate once per Actions run"
Reserve(r) ==
  LET b == base[run[r].sha]
      channel == run[r].channel
      plan == [base |-> b, channel |-> channel, sha |-> run[r].sha, number |-> ledger.counter + 1,
               sequence |-> IF channel = "nightly" THEN r ELSE NextSequence(b, channel)] IN
  /\ run[r].at = "reserve" /\ (channel # "nightly" => Absent(StableTag(b)))
  /\ \/ ledger.plans[r] # None /\ Goes(r, "check") /\ UNCHANGED ledger
     \/ /\ ledger.plans[r] = None /\ Absent(CandidateTag(plan))
        /\ ledger' = [ledger EXCEPT !.counter = @ + 1, !.plans[r] = plan]
        /\ Goes(r, "check")
  /\ UNCHANGED <<head, base, refs, releases, shipped, deleted, failed>>

-----------------------------------------------------------------------------
(* publish, and promote *)

\* Mutant: what is public now decides, not what was ever claimed.
FaultyAboveFloor(r) ==
  \A p \in Reserved : CandidateTag(p) \in Public => p.number <= PlanOf(r).number

\* verify_reservation for a new build, verify_promotion_order for a promotion
AboveFloor(r) ==
  /\ IF run[r].channel = "stable" THEN PlanOf(r).number >= ledger.floor ELSE PlanOf(r).number > ledger.floor
  /\ \A p \in Reserved : p # PlanOf(r) /\ CandidateTag(p) \in Public => p.number < PlanOf(r).number

\* An automatic run publishes the head of the branch; a dispatched one need not.
Automatic(r) == run[r].auto

\* scheduled_reuse: a scheduled nightly of a commit that is out as a candidate
Reused(r) ==
  /\ Automatic(r) /\ run[r].channel = "nightly"
  /\ \E p \in Reserved : p.sha = run[r].sha /\ p.channel # "nightly" /\ CandidateTag(p) \in Public

\* superseded_candidate and scheduled_reuse end a run before its first write.
Superseded(r) ==
  /\ run[r].at = "check" /\ ((Automatic(r) /\ head # run[r].sha) \/ Reused(r))
  /\ Goes(r, "skipped")
  /\ UNCHANGED <<head, base, ledger, refs, releases, shipped, deleted, failed>>

\* promote: the candidate is out, unchanged and still in the ledger.
Promotable(r) == run[r].channel = "stable" => run[r].rc \in Public

\* publish_versioned: a new candidate is not out, and neither is its base.
Publishable(r) ==
  /\ AboveFloor(r) /\ Absent(TagOf(r)) /\ Promotable(r)
  /\ run[r].channel \in {"beta", "rc"} => Absent(StableTag(PlanOf(r).base))

\* begin_publication: "Publication failure still consumes the number"
Claim(r) ==
  /\ run[r].at = "check" /\ Publishable(r) /\ (Automatic(r) => head = run[r].sha)
  /\ ledger' = [ledger EXCEPT !.floor = PlanOf(r).number]
  /\ run' = [run EXCEPT ![r].at = "tag", ![r].source = head]
  /\ UNCHANGED <<head, base, refs, releases, shipped, deleted, failed>>

CreateTag(r) ==
  /\ run[r].at = "tag" /\ Absent(TagOf(r))
  /\ refs' = refs \cup {[tag |-> TagOf(r), sha |-> PlanOf(r).sha]}
  /\ Goes(r, "draft")
  /\ UNCHANGED <<head, base, ledger, releases, shipped, deleted, failed>>

Draft(r) == [tag |-> TagOf(r), draft |-> TRUE, full |-> FALSE]

\* create_release_once: created and answered, or unanswered and created or not;
\* promote has no readback.
CreateDraft(r) ==
  /\ run[r].at = "draft"
  /\ \/ releases' = releases \cup {Draft(r)} /\ Goes(r, "upload")
     \/ /\ run[r].channel # "stable" /\ Goes(r, "readback")
        /\ releases' \in {releases, releases \cup {Draft(r)}}
  /\ UNCHANGED <<head, base, ledger, refs, shipped, deleted, failed>>

\* The request arrives after all.
LateDraft(r) ==
  /\ run[r].at = "readback" /\ releases' = releases \cup {Draft(r)}
  /\ UNCHANGED <<head, base, ledger, refs, run, shipped, deleted, failed>>

\* CreateReadback: one empty draft of this tag, and the tag where it was put
SeenBack(r) == Draft(r) \in releases /\ [tag |-> TagOf(r), sha |-> PlanOf(r).sha] \in refs

\* _reconcile_created_release: the branch and the ledger also as this run left them
Readback(r) ==
  /\ run[r].at = "readback" /\ SeenBack(r)
  /\ head = run[r].source /\ ledger.floor = PlanOf(r).number
  /\ Goes(r, "upload")
  /\ UNCHANGED <<head, base, ledger, refs, releases, shipped, deleted, failed>>

\* upload and verify_uploaded_asset, for every file: an upload is not repeated.
Upload(r) ==
  /\ run[r].at = "upload" /\ Draft(r) \in releases
  /\ releases' = (releases \ {Draft(r)}) \cup {[Draft(r) EXCEPT !.full = TRUE]}
  /\ Goes(r, "publish")
  /\ UNCHANGED <<head, base, ledger, refs, shipped, deleted, failed>>

\* "Tag moved before publication", and confirm_automatic_source
StillMine(r) ==
  /\ [tag |-> TagOf(r), sha |-> PlanOf(r).sha] \in refs
  /\ Automatic(r) => head = run[r].sha

\* The last request is answered; or it is done and not answered, and the run fails
\* with its release public.
MakePublic(r) ==
  /\ run[r].at = "publish" /\ StillMine(r)
  /\ \E x \in releases :
       /\ x.tag = TagOf(r)
       /\ releases' = (releases \ {x}) \cup {[x EXCEPT !.draft = FALSE]}
  /\ shipped' = shipped \cup {[tag |-> TagOf(r), number |-> PlanOf(r).number]}
  /\ \/ Goes(r, "published") /\ UNCHANGED failed
     \/ Goes(r, "failed") /\ failed < Failures /\ failed' = failed + 1
  /\ UNCHANGED <<head, base, ledger, refs, deleted>>

-----------------------------------------------------------------------------
(* Maintainers *)

Commit ==
  /\ head < Commits /\ head' = head + 1
  /\ UNCHANGED <<base, ledger, refs, releases, run, shipped, deleted, failed>>

\* Of a candidate: its tag, its release, or both
Delete ==
  /\ deleted < Deletions /\ deleted' = deleted + 1
  /\ \E tag \in {t \in Taken : t.channel # "stable"} :
       /\ refs' \in {refs, {x \in refs : x.tag # tag}}
       /\ releases' \in {releases, {x \in releases : x.tag # tag}}
  /\ UNCHANGED <<head, base, ledger, run, shipped, failed>>

Next ==
  \/ \E r \in Runs :
       \/ \E channel \in Candidates, auto \in BOOLEAN : Start(r, channel, None, auto)
       \/ \E rc \in Public : Start(r, "stable", rc, FALSE)
       \/ Rerun(r) \/ Fail(r) \/ Closed(r) \/ Reserve(r)
       \/ Superseded(r) \/ Claim(r) \/ CreateTag(r) \/ CreateDraft(r) \/ LateDraft(r)
       \/ Readback(r) \/ Upload(r) \/ MakePublic(r)
  \/ Commit \/ Delete

Spec == Init /\ [][Next]_rvars

-----------------------------------------------------------------------------
(* Properties *)

\* "Bind publication to its durable plan and prevent delayed numeric downgrades"
\* (verify_reservation), "existing public tags are never overwritten" and
\* "deleting GitHub release metadata cannot make an older build publishable
\* again" (docs/VERSIONING.md): whatever failed, was run again or was deleted in
\* between, what becomes public is complete and carries a higher build number than
\* all before it, or is the newest candidate promoted; a tag is never used twice;
\* and no candidate follows the release of its base.
ReleasesOnlyAdvance ==
  [][\A r \in Runs :
       run[r].at = "publish" /\ run'[r].at # "publish" /\ releases' # releases
       => /\ \A x \in releases' \ releases : x.full
          /\ \A y \in shipped :
               /\ y.tag # TagOf(r)
               /\ \/ y.number < PlanOf(r).number
                  \/ y.number = PlanOf(r).number /\ y.tag = run[r].rc
          /\ run[r].channel \in {"beta", "rc"} => \A y \in shipped : y.tag # StableTag(PlanOf(r).base)]_rvars

=============================================================================
