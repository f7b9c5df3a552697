------------------------------- MODULE Diagram -------------------------------
(***************************************************************************)
(* One document as its users and the assistant change it: commands, files  *)
(* that replace the whole model, and plans that are previewed, confirmed   *)
(* and applied as one batch.  Each write is one step: DocumentStore shows  *)
(* that the row lock makes it so.                                          *)
(*                                                                         *)
(* A plan lives in Django's cache, outside that lock.  Its preview reads   *)
(* the document before the language model answers, its confirmation reads  *)
(* the cache, then the document, then submits; several confirmations of    *)
(* one plan may be under way.                                              *)
(*                                                                         *)
(* A scenario is what one behaviour is about: the commands that drew the   *)
(* diagram, those that may follow, the files that may be imported, what    *)
(* the assistant may be asked, and two bounds of the exploration: writes   *)
(* by command or file, and plans asked for (asks).                         *)
(***************************************************************************)
EXTENDS Assistant, XmiInterop

CONSTANTS Scenarios,   \* the scenarios
          Plans,       \* plan ids
          Confirmers   \* server threads that confirm plans

VARIABLES scenario, model, revision, plans, confirm

vars == <<scenario, model, revision, plans, confirm>>

(* What is said and what is on an image.                                   *)
Voice(calls) == [kind |-> "voice", calls |-> calls, image |-> [classes |-> <<>>, rels |-> <<>>]]
Image(image) == [kind |-> "image", calls |-> <<>>, image |-> image]

ASSUME ScenarioAssumption ==
  \A s \in Scenarios :
    /\ s.seed \in Seq(ToSet(s.seed))
    /\ \A c \in ToSet(s.seed) : IsCommand(c) /\ c.type \in Additions /\ Decodes(c)
    /\ DrawFreshIds(s.seed, EmptyModel)
    /\ \A c \in s.commands : IsCommand(c)
    /\ \A file \in s.files : IsFile(file)
    /\ \A request \in s.requests : AreCalls(request.calls) /\ request.image \in ImageType

NoPlan == [stage |-> "none", request |-> Voice(<<>>), seen |-> EmptyModel, base |-> 0,
           calls |-> <<>>, applied |-> 0]
Idle == [stage |-> "idle", plan |-> "none", commands |-> <<>>]

Init ==
  /\ scenario \in Scenarios
  /\ model = Play(EmptyModel, scenario.seed)
  /\ revision = 1
  /\ plans = [p \in Plans |-> NoPlan]
  /\ confirm = [u \in Confirmers |-> Idle]

MayWrite == revision <= scenario.writes   \* bound: writes other than plans

(* submit_command.  A refused command, or one that crashes its gate,       *)
(* changes nothing; a handler that leaves the model as it is still raises  *)
(* the revision.                                                           *)
SubmitCommand(c) ==
  /\ MayWrite
  /\ DrawFreshIds(<<c>>, model)
  /\ Gate(model, c) = "ok"
  /\ model' = Handle(model, c)
  /\ revision' = revision + 1
  /\ UNCHANGED <<scenario, plans, confirm>>

(* import_xmi_into_document_view and replace_document_content.             *)
ReplaceContent(read) ==
  /\ MayWrite
  /\ read.error = "none"
  /\ model' = read.model
  /\ revision' = revision + 1
  /\ UNCHANGED <<scenario, plans, confirm>>

ImportFile(file) == ReplaceContent(ImportXmi(file))

(***************************************************************************)
(* preview_voice_command, preview_image_import.                            *)
(***************************************************************************)
(* The document is read, and the language model asked.                     *)
Ask(p, request) ==
  /\ plans[p].stage = "none"
  /\ Cardinality({q \in Plans : plans[q].stage # "none"}) < scenario.asks
  /\ plans' = [plans EXCEPT ![p] =
       [stage |-> "asked", request |-> request, seen |-> model, base |-> revision,
        calls |-> <<>>, applied |-> 0]]
  /\ UNCHANGED <<scenario, model, revision, confirm>>

CallsOfPlan(plan) ==
  IF plan.request.kind = "voice" THEN plan.request.calls
  ELSE ReconcileImageCalls(plan.seen, ExpandImageExtraction(plan.request.image))

NewIdAt(at, i) == "p" \o ToString(at) \o "." \o ToString(i)
TranslatePlan(at, current, calls) ==
  Translate(current, calls, [i \in DOMAIN calls |-> NewIdAt(at, i)])

(* The calls are described against the document that was read, and cached  *)
(* unless describing them crashes.                                         *)
Describe(p, calls) ==
  LET shown == ErrorsOf(TranslatePlan(plans[p].base, plans[p].seen, calls))
  IN  plans' = [plans EXCEPT ![p].stage = IF "crash" \in shown THEN "gone" ELSE "cached",
                             ![p].calls = calls]

Preview(p) ==
  /\ plans[p].stage = "asked"
  /\ Describe(p, CallsOfPlan(plans[p]))
  /\ UNCHANGED <<scenario, model, revision, confirm>>

(* The cache forgets a plan after its 15 minutes.                          *)
Expire(p) ==
  /\ plans[p].stage = "cached"
  /\ plans' = [plans EXCEPT ![p].stage = "gone"]
  /\ UNCHANGED <<scenario, model, revision, confirm>>

(***************************************************************************)
(* confirm_voice_command, confirm_image_import.                            *)
(***************************************************************************)
(* cache.get; a plan that is gone is answered 409.                         *)
GetPlan(u, p) ==
  /\ confirm[u].stage = "idle"
  /\ plans[p].stage = "cached"
  /\ confirm' = [confirm EXCEPT ![u] = [Idle EXCEPT !.stage = "got", !.plan = p]]
  /\ UNCHANGED <<scenario, model, revision, plans>>

EndConfirm(u) == confirm' = [confirm EXCEPT ![u] = Idle]

(* get_document: the revision has moved (409, the plan stays cached).      *)
FindMoved(u) ==
  /\ confirm[u].stage = "got"
  /\ revision # plans[confirm[u].plan].base
  /\ EndConfirm(u)
  /\ UNCHANGED <<scenario, model, revision, plans>>

(* The document is the one that was previewed: the plan is taken out of    *)
(* the cache and only then translated.  A call that does not translate is  *)
(* an error nobody catches (500), one that does not decode a 422; either   *)
(* way the plan is lost.                                                   *)
GoOnWith(u, calls, results) ==
  LET submits == /\ results # <<>>
                 /\ ErrorsOf(results) = {}
                 /\ \A call \in ToSet(calls) : DecodableCall(call)
  IN  IF submits
        THEN confirm' = [confirm EXCEPT ![u].stage = "checked",
                                        ![u].commands = CommandsOf(results)]
        ELSE EndConfirm(u)

TakePlan(u) ==
  LET plan == plans[confirm[u].plan]
      results == TranslatePlan(revision, model, plan.calls)
  IN  /\ confirm[u].stage = "got"
      /\ revision = plan.base
      /\ DrawFreshIds(CommandsOf(results), model)
      /\ plans' = [plans EXCEPT ![confirm[u].plan].stage = "gone"]
      /\ GoOnWith(u, plan.calls, results)
      /\ UNCHANGED <<scenario, model, revision>>

(* submit_commands with expected_revision: every command passes its gate   *)
(* on the model the ones before it leave, or none is applied.              *)
Batch(current, commands) ==
  FoldLeft(LAMBDA done, c :
             IF done.verdict # "ok" THEN done
             ELSE [verdict |-> Gate(done.model, c), model |-> Handle(done.model, c)],
           [verdict |-> "ok", model |-> current], commands)

(* Mutant of ExpectedRevisionHolds: no expected_revision is passed.        *)
AnyRevisionHolds(u) == TRUE
ExpectedRevisionHolds(u) == revision = plans[confirm[u].plan].base

(* An empty batch is refused too.                                          *)
IsAccepted(u) ==
  /\ ExpectedRevisionHolds(u)
  /\ Len(confirm[u].commands) \in Nat \ {0}
  /\ Batch(model, confirm[u].commands).verdict = "ok"

ApplyPlan(u) ==
  /\ confirm[u].stage = "checked"
  /\ IsAccepted(u)
  /\ model' = Batch(model, confirm[u].commands).model
  /\ revision' = revision + Len(confirm[u].commands)
  /\ plans' = [plans EXCEPT ![confirm[u].plan].applied = @ + 1]
  /\ EndConfirm(u)
  /\ UNCHANGED scenario

RefusePlan(u) ==
  /\ confirm[u].stage = "checked"
  /\ ~IsAccepted(u)
  /\ EndConfirm(u)
  /\ UNCHANGED <<scenario, model, revision, plans>>

Next ==
  \/ \E c \in scenario.commands : SubmitCommand(c)
  \/ \E file \in scenario.files : ImportFile(file)
  \/ \E p \in Plans :
       \/ \E request \in scenario.requests : Ask(p, request)
       \/ Preview(p)
       \/ Expire(p)
  \/ \E u \in Confirmers :
       \/ \E p \in Plans : GetPlan(u, p)
       \/ FindMoved(u)
       \/ TakePlan(u)
       \/ ApplyPlan(u)
       \/ RefusePlan(u)

Spec == Init /\ [][Next]_vars

(***************************************************************************)
(* A plan is applied at most once, and only to the very model its preview  *)
(* described, whatever was written while the language model thought or     *)
(* while confirmations overlapped (service.py 246-306, services.py         *)
(* 221-250).                                                               *)
(***************************************************************************)
PlansApplyAsPreviewed ==
  [][\A p \in Plans : plans'[p].applied # plans[p].applied =>
       plans'[p].applied = 1 /\ model = plans[p].seen]_vars
=============================================================================
