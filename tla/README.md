# Verification of ai-k8s-gateway

TLA+ modules, TLC configurations and TLAPS proofs for the AI agent Kubernetes
security gateway: an HTTP service that takes an agent's action, scores it, asks
an OPA sidecar, and then denies it, queues it for a human or executes it.

## 1. Inventory

### Components

| Component | Code | State | Operations |
|---|---|---|---|
| Gateway routes | `app/main.py` | one suspended handler per request; none shared | `POST /agent-action`, `POST /approve/{id}`, read-only `GET /pending`, `GET /health` |
| Approval queue | `app/approval/queue.py` | `_queue`: dict of pending requests, in process memory | `enqueue`, `resolve`; read-only `list_pending`, `peek`, `size` |
| Audit logger | `app/audit/logger.py` | one append-only file per pod (an `emptyDir`) | `log` |
| Risk scorer | `app/risk/scorer.py`, `app/config.py` | none (tables, settings) | `score` |
| OPA policy | `policies/agent_actions.rego` (and an identical copy in the chart) | none | `allow`, `deny_reasons`, `reason` |
| Kubernetes client | `app/k8s/client.py` | none of its own; the cluster's objects | `execute_action` and its dispatch table, `_build_deployment` |
| JWT authentication | `app/auth/*.py`, `app/config.py` | secret and TTL, read when a process starts | the import guard, `create_token`, `verify_token`, a minting CLI |
| Agent client | `ai_agent_client.py` | a connection | `action` (one retry on 503), `approve`/`reject`, typed methods, `_handle_response` |
| Deployment | `k8s/gateway/deployment.yaml`, `charts/` | two replicas behind one Service, a sidecar each | rollout, restart by the liveness probe |
| Gatekeeper | `k8s/gatekeeper/` | none | three admission constraints on pods |
| Falco, structured logger, demo, CI | `k8s/falco/`, `app/audit/structured_logger.py`, `demo/`, `.github/`, `Makefile` | none that the gateway reads | outside the request path |

### How they interact

`agent_action` calls `verify_token`, `score`, then awaits the OPA sidecar over
HTTP with a 5 s timeout. On a denial it logs and raises 403. On an allow it
either enqueues, logs and answers 200 `pending-approval` (high risk), or calls
the Kubernetes client, logs and answers 200 `allow`. `approve_action` pops the
queue entry, executes it (or not), logs and answers; it does not ask OPA again.
Queue, log and event loop are per process; the Service routes each call to any
replica.

### What is hard

* The OPA await is the only point where a handler gives up the event loop: every
  other handler, approval and denial may run in between.
* `execute_action` is synchronous inside `async def`: while it lasts the
  replica serves nothing, `/health` included.
* The queue entry is popped before the execution that may fail, and the audit
  record is written after it: each failure or crash in between loses something
  different.
* Two replicas with separate queues and logs; a restart empties the first, a
  deleted pod the second.
* A timed-out OPA query may still be answered; an API server may still carry
  out what a dead replica sent.
* Scorer (Python), policy (Rego), settings, dispatch table, ClusterRole and
  Gatekeeper hold copies of the same tables and convert the same JSON values
  differently.
* An error of the API server (502 to the caller) may be a timeout after which the
  change is still made; no call of the Kubernetes client has a timeout of its own.
* The client repeats a request after any 503 without a key by which the gateway
  could recognise it, and gives up on its own timeout while the gateway goes on.
* Names are stripped of blanks for the scorer and the Kubernetes client and not
  for OPA, so the three may judge different names.
* A patch is the whole Deployment built anew, merged into what other people left.
* Tokens carry whole seconds, the clock does not; secrets differ between
  processes and over time.

### What makes each component correct

* Routes: nothing reaches the cluster without OPA's allow and, at high risk, an
  approval; at most once; a denial is final, and a success is what happened.
* Queue: an entry is undecided and unexecuted as long as it is there; it leaves
  by a decision or with its process.
* Audit: what was answered is recorded, in order, and no execution is claimed
  that did not happen.
* Scorer and policy: they agree with each other where the documentation says
  so; no denial without a reason for a known verb; more danger is never better.
* Agent client: what it returns or raises is true of what the gateway did, and
  its retry is no second execution.
* Kubernetes client: what the policy allowed has the permissions it needs, ends
  within the policy's bounds whatever it is merged into, and is admitted.
* Tokens: those the gateway makes live exactly their lifetime; the default secret
  of `config.py` opens no gateway in a cluster.

## 2. Modules

| Module | Models |
|---|---|
| `Gateway` | routes, approval queue, audit log, replicas and their crashes, OPA and the API server as environment |
| `Lifecycle` | the abstract promise about one action: cleared, perhaps held, open, carried out once, closed |
| `ActionRequest` | the request body and role that scorer and policy look at |
| `RiskScorer` | `app/risk/scorer.py` as operators |
| `Policy` | `policies/agent_actions.rego` as operators |
| `Enforcement` | stages 2 and 3 of `agent_action` on one request: `ScoreRequest`, `Decide` |
| `AgentClient` | `GatewayClient` with its timeout and retry, the network and a proxy, composed with `Gateway` |
| `K8sClient` | the Kubernetes client behind `Policy`: dispatch table, builder, patches, ClusterRole, Gatekeeper, and people with kubectl |
| `Mediation` | the whole path: `AgentClient` and `Gateway` with the level and the verdict computed by `RiskScorer` and `Policy` |
| `EndToEnd` | `Mediation` with `K8sClient` behind it: what the API server carries out, when, and on which Deployments |
| `Tokens` | secrets, minting, verification and expiry of bearer tokens |
| `MCGateway`, `MCEnforcement`, `MCEndToEnd`, `MCK8sClient` | values and symmetry for TLC |
| `GatewayProofs`, `AuditProofs`, `GatewayRefinement`, `EnforcementProofs`, `AgentClientProofs`, `EndToEndProofs`, `K8sClientProofs`, `TokensProofs` | theorems and their proofs |

`AgentClient` extends `Gateway` and `K8sClient` extends `Policy`; `Enforcement`
composes `RiskScorer` and `Policy`; `Mediation` composes `AgentClient` with
both, and `EndToEnd` adds an instance of `K8sClient`. `Gateway` is shown to
implement `Lifecycle`, and `EndToEnd` the specification of `K8sClient`.

A definition that TLC should find wrong stands before the one it imitates and is
commented `Mutant of ...`: each is a plausible bug of the code, and the property
listed with it in `PROJECT.json` is violated once it takes the place of the real
definition.

### `Gateway`: state and steps

A request is its `request_id`; of its body only the risk `level` is kept, chosen
freely in `Submit`, and OPA's verdict, chosen freely in `OpaDecides`.
`RiskScorer` and `Policy` say which combinations really occur, and `Mediation`
puts them together; `Gateway` itself is checked and proved for all of them.

| Variable | In the code |
|---|---|
| `home`, `phase`, `reply` | the replica the Service chose, how far `agent_action` has come, what the agent received |
| `level`, `opa` | `rs.level`; the body the sidecar returns |
| `queue[n]` | keys of `ApprovalQueue._queue` of replica `n` |
| `ruling`, `answer` | what was decided about a request; the answer of the last `POST /approve` for it |
| `call[n]` | the `execute_action` call the event loop of `n` is inside, for an agent or an approver |
| `wire`, `effects` | the request at the API server, and how often it was carried out |
| `audit[n][r]`, `warned` | the decisions in `n`'s log file for `r`; `[AUDIT WARNING]` lines on stderr |
| `status[n]` | running, crashed (pod and log stay), gone (pod deleted) |

A handler is cut where another handler or process can act: at the OPA await and
at the start and end of the Kubernetes call. "A human approved" means that
somebody with a valid token called `/approve`: `approve_action` (`main.py:414`)
looks at no role, so it may be the agent itself. Everything between two cuts is
one action, audit record and reply included. Replies that end a request early
are `Unauthorized` (401), `ScoringFails` and `OpaGarbled` (uncaught exceptions,
500) and `OpaDenied`/`OpaFailed` (403); an approver may get 401
(`ApproveUnauthorized`) or 404 (`ApproveUnknown`). The call ends with
`ReturnDone`, `ReturnSimulated` (no cluster configuration), `ReturnK8sError`
(502) or `ReturnUncaught` (500); nothing is logged in the last two because the
exception passes `audit.log`. Both may come at any moment of the call, whatever
the API server has done or will do: every `ApiException` becomes a 502, a
refusal as well as a timeout, an internal error or a failed TLS handshake, and a
broken connection says nothing about the API server either. A 502 therefore does
not mean that nothing was changed; what the properties say is that a change made
after it was cleared (`OnlyClearedIsApplied`) and is the only one
(`AppliedAtMostOnce`).

`Dies` drops a process's handlers, queue and call; what was sent stays sent.
`Record` either appends or only warns, since `log` swallows `OSError`.

### `Enforcement`

`ActionRequest` keeps the JSON values that the two languages treat differently:
an image that is absent, null, empty, not a string, or begins with a prefix; a
replica count that is absent, null, false or true, a number, a fraction, a
numeral in a string, other text or a collection. Python's `int(...)` and
`str(...)`, and Rego's undefinedness and total order of values, are modelled by
what they do to each of these. Names are in lower case; `padded` says which of
them were posted with blanks around them. The scorer and the Kubernetes client
strip these, the query to OPA does not (`main.py:143-145`), so to the policy
such a name is one that is in none of its lists (`OpaAction`, `OpaResource`,
`OpaNamespace`). Negative replica counts are left out; numbers beyond the range
of a float are `ScoringFails` of `Gateway`.

### `AgentClient`

An ask is one call of `action()`. Each POST becomes a request of `Gateway` with an
id of its own: `<< ask, 1 >>`, and `<< ask, 2 >>` for the retry. `flying` are the
requests on their way, `taken` those the gateway received; `Gateway` steps only
those (`GatewayStep`). `Post`, `Receive` (an answer arrives and `_handle_response`
maps its status), `Unreachable` (`httpx.RequestError`: refused, broken or timed
out; what is on its way stays there) and `Unavailable` are the client's steps.
The gateway itself never answers 503. A proxy in front of it does: it could not
hand the request on, or its connection to the replica broke after it had, whether
the replica died, is still at work, has answered or has not read the request yet.
The client repeats after every one of them; `cutOff` (a history variable) remembers
the asks whose first attempt had been handed on. `approve()` and `reject()` are the
approver's calls of `Gateway`, read through `Outcome`; they are not repeated.
`Outcome` maps the answers the gateway and the proxy give; a body that is not the
expected JSON, on which `_handle_response` raises other errors, is left out.

### `Mediation`

`payload` is what `action()` was called with, and the role of the agent's token;
both attempts of an ask carry it (`Body`). A step in which a handler sends its
query must choose the level the scorer computes (`ScoredByRules`), and the
sidecar's verdict is that of the policy, or no JSON comes back at all
(`JudgedByPolicy`). A body the scorer fails on is still `ScoringFails`. All
replicas have the same settings and the same policy: they are one Deployment
with one ConfigMap each.

### `K8sClient`

`store` maps names to Deployments of one namespace; `reply` is the outcome of
the last `execute_action`. Any call of any request the policy allows may come,
with any name and port, present, null, empty or of the wrong type (a null or
non-string name is the ValueError or API error it comes to). `Unsupported`,
`Nameless` and `BadNumber` are the errors before something is sent, `ApiError`
the API server's refusals, `Reads`, `Creates` and `Patches` the successes.
`_build_deployment` is `Built` for a create; the same object as a strategic
merge patch is `Patched`. `OperatorWrites` and `OperatorDeletes` are people with
kubectl, between any two calls. Of the security context there is one mark,
`confined`, and of the limits whether both are there, none, or whether an
agent's patch has `lifted` them by sending null. `Granted` is the ClusterRole;
`Admitted` the three Gatekeeper constraints.

### `EndToEnd`

Where `Gateway` says only that the API server applied or refused what is on the
wire, `EndToEnd` says what that did. `args` are the parameters of each ask that only
the Kubernetes client reads; like the body they are the same for both attempts
and for the queue entry. `deployments` and `last` are `store` and `reply` of the
instance `K8s`. When the API server answers a request (`ClusterAnswers`), it carries
out or refuses its call on the Deployments of that moment: the sender may be
dead by then, the other replica or a retry may have come first, and people may
have edited or deleted what is to be patched. A call that cannot be built ends
in the 502 or 500 of its error before anything is sent (`BuildingFails`). Every
other step of `Mediation` leaves the cluster alone (`Unnoticed`), and sends only
calls that can be built. So what `Gateway` leaves open, when a call is refused or
never sent, is decided here by its parameters; what remains open is a connection
that fails, with a 500, or a 502 if it is TLS. `settled` is a history variable
for `RepeatIsHarmless`. All bodies are in one namespace, as in `K8sClient`;
Deployments of different namespaces have nothing to do with each other.

### `Tokens`

One token is followed while the clock moves in fractions of a second and
processes start and stop with different secrets, in and out of a cluster. A
process that would run in a cluster with the developer's secret does not start
(`Refuses`). `CreateToken` cuts the expiry to whole seconds as JWT's NumericDate
does; `VerifyToken` compares it with the whole seconds of the present.
`OthersSign` stands for whoever else signs a token, with another key or with a
secret they hold: any `sub` and `role`, or none, and with or without an expiry.
`verify_token` compares neither claim with AGENT_IDENTITIES and asks for no expiry,
so whoever holds a gateway's secret is accepted with the claims they wrote;
`LifetimeIsExact` is therefore about tokens of `create_token` only. Both
AGENT_IDENTITIES are registered.

## 3. Runs

| Run | Instance | Shows |
|---|---|---|
| `two_pods` | 2 requests, 2 replicas, symmetric | all safety properties of `Gateway`, three action and refinement properties |
| `liveness` | 2 requests, 1 replica, `FairSpec` | every request ends, whatever blocks the event loop, and an approver learns of an outcome |
| `end_to_end` | 1 ask (two requests), 2 replicas, symmetric, one down at a time; a body for each level and verdict, one with blanks around a name, with good parameters, without a name and with a port that does not convert; 1 Deployment of people | what a return or an exception of `action()` lets the agent conclude; what scorer and policy guarantee of cluster and log; the cluster is changed only by what was allowed and approved, and by a retry no further than by its first attempt |
| `enforcement` | 3 roles, 6 verbs, 2 resource and 2 namespace classes, blanks around no name, the verb, or the two others, all payloads of 3 images and replica counts 2, 10, 11; default settings | agreement of scorer and policy |
| `k8s_client` | all verb classes on six kinds, all images of 4 prefixes, all replica values with counts 10 and 11, limits good, null and bad, 1 name, 1 port, good, missing, null, empty or of a wrong type, names also with blanks, 4 Deployments of people | policy, dispatch table, ClusterRole and Gatekeeper agree; bounds hold in the cluster |
| `tokens` | 2 processes, 2 secrets, TTL of 2 s, half seconds up to 9 | how long tokens of `create_token` live, and what the default secret opens, whatever others sign |
| `unlogged` | 1 request, 1 replica | **violated**: a 502 or 500 leaves no record |
| `ruling_unlogged` | 1 request, 1 replica | **violated**: an approval whose execution fails is not recorded |
| `pending` | 1 request, 1 replica | **violated**: a queued request is answered 200, documented as 202 |
| `not_found` | 1 request, 2 replicas | **violated**: 404 for a request nobody decided |
| `manifest_settings` | deployers, shipped ConfigMap | **violated**: `busybox:` scores as untrusted but is allowed by the policy |
| `patch_resets` | as `k8s_client` | **violated**: a typed `patch_deployment` that names one field sets others to their defaults |

Bounds. Requests interact only by sharing an event loop or a queue, and an
approver's call differs from an agent's only in `call[n].by`; two requests and
two replicas give every such pair, with the approver on the right or the wrong
replica and a crash before, between or after. No counter needs a bound: each
request is submitted once, and what grows (`effects`, the log) is bounded by the
properties themselves. In `enforcement` each list of the code is represented by
members and non-members, the image names by one per treatment, the replica
counts by below, at and above the limit of 10. In `end_to_end` asks share
nothing but the gateway, which `two_pods` covers, and the cluster, where the
people with kubectl stand for everybody else; so one ask with both its attempts
is enough. Its eight bodies are one for each level and each verdict, both
a create and a patch among those that are executed at once, and the create of
`secrets` once without blanks, denied, and once with them, allowed. The
ten posts put to them the parameters that decide whether a call is sent. With
two replicas the attempts may meet on one pod or on different ones, and either
may die. `MCSpec` of `MCEndToEnd` adds three bounds to keep the run short: one
replica is down at a time (`MaxDown`), and approvers who are turned away and
failing log writes, which `two_pods` has, are left out. The theorems on
`EndToEndSpec` need none of them. In `k8s_client` Deployments do not affect each
other, so one name will do, the default one so that a create without a name
meets it; a Deployment may be created, edited, patched and deleted any number of
times, since the state space is finite without a bound. In `tokens` (bounds
`MaxTime`, `PerSecond`) a token can be minted on and between whole seconds and be
presented before, at and after its expiry; a finer or longer clock adds no case,
and the theorem holds for all. `CHECK_DEADLOCK FALSE` is set in
every configuration because the systems really stop: all requests answered and
all pods gone, all asks ended, the clock at its bound.

Fairness (`Fairness` in `Gateway`). `OpaFailed` is weakly fair: the httpx client
has a 5 s timeout, so a query that nobody answers fails. A Kubernetes call has
none: nothing in `client.py` passes `_request_timeout`, and nothing obliges the
API server to answer. But a replica inside a call cannot answer `/health`, so
either the call goes on or the liveness probe
(`k8s/gateway/deployment.yaml:213-218`) has the container killed; `CallProceeds`
is weakly fair, and stands for sending, returning a result or an error, or the
crash. What follows is that everybody gets an answer or a broken connection, not
that the API server is ever heard of. Not fair: OPA deciding, tokens verifying,
operators approving or denying, crashes, restarts. Weak fairness is enough for
`OpaFailed`, although a neighbour's call can occupy the loop, because a loop
that is occupied again and again needs a new request or approval each time and
these are finitely many. In `liveness` this is bounded by two requests; the code
has no bound, so an endless stream of calls could starve a handler only if
asyncio's FIFO ready queue were not fair.

## 4. Proofs

For any set of requests and any non-empty set of replicas (`RequestsAssumption`
and `ReplicasAssumption`), `GatewayProofs` proves type correctness, the safety
properties `OnlyClearedIsApplied`, `AppliedAtMostOnce`, `QueueIsExclusive`,
`TurnedAwayStaysAway`, and the action properties
`RulingIsFinal` and `HeldUntilRuledOrDead`.

None of these is inductive alone. `Inductive` has three parts. `CallOK`: the
call a replica is inside belongs to a request of that replica which OPA allowed,
is either its agent's and not high-risk or was approved, and `sent` agrees with
`wire`. `HeldOK`: a queued request is allowed, high-risk, answered, undecided
and never sent. `RequestOK`: `effects` is 1 exactly if `wire` is `applied`; what
is on the wire is cleared; the answers but 500 and 502 bound what the wire may
be; a decision exists only for an answered pending request. The argument for
`AppliedAtMostOnce`: an entry is popped with its decision recorded, so `HeldOK`
forbids a second pop; an agent's call has `phase = "exec"` and an approver's
`level = "high"`, so two calls never carry the same request
(`CallsAreDistinct`); the API server applies only from `wire = "sent"`, which is
entered once. There is one lemma per action, with a step per part it can
disturb.

`GatewayRefinement` proves that `Gateway` implements `Lifecycle`
(`GatewayKeepsPromise`). The mapping reads the stage of a request off its place:
in a queue is `held`; in a call, or sent or applied by one, is `open`; still in
its handler is `submitted`; anything else is `closed`. Its clearance is OPA's
verdict and the level. Most steps are shown to be the abstract `Close` of the
requests they move, none of which was carried out (`CloseImplements`); the
others are `Clear`, `Hold`, `Open` or `Apply`. A crash may close several
requests at once. Besides `Inductive` this needs `Unasked`: OPA has said nothing
of a request before its level is fixed, so `Submit` cannot change a clearance.

`EnforcementProofs` proves, for any roles, verbs, names, prefixes and counts,
that allow and deny rules exclude each other, that only unknown verbs are denied
without a reason, that the human queue is reached only by three points for what
the policy passes over, that reading never scores high, and that score and verdict
are monotone in the host-level fields. `SyncedSettingsAgree` assumes the
settings equal the policy's constants, the condition the shipped ConfigMap
breaks.

`ScoresAreBounded` gives the range of the score from the tables.

`AuditProofs` proves the properties of the log: what was answered is logged
(`AnswersAreLogged`), what is logged as executed was executed (`LogIsTruthful`),
and each trail has its legal order (`TrailsAreLegal`). The proof first describes
every step by what it does to one request (`OneRequest`): it writes no record and
its answers claim nothing (`Mute`), it destroys the log with its pod (`LogLost`), or
it writes record `d` together with the answer and the ruling that belong to `d`
(`Writes`). The invariants follow from that description and `Inductive`, without
a second look at the actions. The one that is hard is `TrailOK`: the log of a
request whose records were all written is a function of its answer, the ruling
and, after an approval, of whether the call is still running (`InStep`).

`AgentClientProofs` carries the gateway's theorems over (each client step is a
stutter of `Gateway`) for any asks, replicas and network. Its invariant `ClientOK`
says that a request not received is untouched (`Fresh`), that a second attempt
exists only if the first was cut off or will never arrive (`AttemptsOK`), and from
which answer an outcome was made (`OutcomeOK`). `DenialIsFinal` needs all three:
the denial speaks of one attempt, the other never arrives or was cut off.

`EndToEndProofs` joins the three, and then the cluster. The rules of `Mediation`
only restrict the choices of `AgentClient`, so all theorems on client and
gateway hold on the whole path. What is new rests on `Judged`: OPA's answer for
a request, if there is one, is the policy's verdict on its body, and once the
request is scored its level is that of its body. It is inductive because a step
either sends the query, with the level fixed by the body, or leaves level and
scoredness alone (`StageStep`), which takes a look at every handler. Both
attempts of an ask have one body, hence one level and one verdict (`SameScore`,
`SameVerdict`), wherever they are handled; so `RetriesChangeNothing` holds even
where `RetryIsSafe` has its exception. `MediationIsComplete` needs
`AllowedIsPermitted`, that allow and deny rules exclude each other.
`LogIsReproducible` needs of each step what `AuditProofs` says of it: a record
that is no denial is written only for a request OPA allowed, as `allow` exactly
if it is not high.

All of this holds of `EndToEndSpec`, whose steps are `Mediation`'s or leave its
variables alone. `ClusterAlwaysGuarded` discharges what `K8sClient` takes for
granted: a request on the wire or in a call is cleared by `Inductive`, hence
allowed by `Judged` and approved if it scores high, so every step the cluster
sees is one of `K8sClient`'s. From that `ClusterIsK8sClient` follows,
`EndToEndSpec` implies the specification of `K8sClient`, and the theorems of
`K8sClientProofs` hold of the Deployments behind the whole path
(`BoundsHoldEndToEnd`). They are cited through an instance of `K8sClientProofs`,
whose assumptions on the constants are shown to follow from those of `EndToEnd`
(`ClusterAssumptions`); its operators and those of the instance in `EndToEnd`
are shown to be the same one by one (`SamePolicy` to `SameOperators`).

`RepeatsAreHarmless` needs that a call which is carried out leaves the
Deployments `Fixed` for it, and that carrying out the same call on Deployments
that are fixed for it changes nothing (`CarryingOutFixes`, `CarryingOutAgain`): a
second create is refused because the name is taken, and a second patch finds
what it would set (`PatchedTwice`: limits, security context and replicas are
set, the port is among those merged in, and a null image leaves the image).
The inductive invariant `SettledOK` says that what is remembered of an ask in
`settled` is fixed for its call. Nothing is assumed on the order of the two
attempts.

`K8sClientProofs` rests on `Sound`, the state a Deployment may be found in:
within the policy's limits if the gateway wrote it last, and without other
containers or host access, and with limits unless lifted, if nobody else wrote
it. `PatchedIsSound` is the case that matters: merging into any Deployment of
anybody keeps it. It holds for any requests, images, ports and Deployments of
people.

`TokensProofs` holds for any secrets, TTL and resolution of the clock. The
lifetime follows from the two cuts to whole seconds by the laws of integer
division (`SecondIs`), and says nothing of tokens others sign.
`OthersAssumption` says that the other key is not a secret of a gateway.

Model-checked only: liveness (`EveryRequestEnds`, `ApprovalHasOutcome`), which
depends on fairness and is out of the prover's reach. Every invariant, every
safety action property and every refinement the passing runs check is also
proved. The type invariants of `AgentClient` and `Tokens` are proved and not
among the runs' properties.

## 5. Findings

1. Requests that end in 502 or 500 are not in the audit log (`unlogged`), though
   `app/audit/logger.py:4-5` and `docs/architecture.md:107` say all are.
2. An approval whose execution fails is neither logged nor pending any more
   (`ruling_unlogged`), though `app/main.py:411-412` promises a second record.
3. A queued request is answered 200 instead of the documented 202 (`pending`), so
   the client's `GatewayPendingError` is never raised.
4. With the shipped two replicas an approval may be answered 404 for a request
   that still waits in the other pod (`not_found`). `docs/adr/0003`, line 21,
   admits that queues are not shared; `app/approval/queue.py:127-128` and the text
   of the 404 do not allow for it.
5. The shipped ConfigMap's image prefixes are not those of the policy
   (`manifest_settings`).
6. A patch that names only an image sets the replicas to 1, and one that names
   only replicas sets the image to `nginx:alpine` (`patch_resets`), although
   `ai_agent_client.py:279` offers to update the one or the other.

Some readings of the checked properties deserve attention.

* Under the default settings the queue is reached only by three points for what
  the policy passes over (`PendingNeedsDisagreement`): a `hostPath` (two), an image
  that is null or a replica value that the two languages read differently (one
  each), a namespace or resource with blanks around it (two and one). Everything
  else that scores high is denied by the policy first.
* The properties that speak of the policy's verdict speak of the body as posted.
  A name with blanks around it is in none of the policy's lists and is stripped
  before the call (`k8s/client.py:129-131`): a medium-risk create for the namespace
  `kube-system` written with a trailing blank is allowed and carried out in
  `kube-system`. For the client the namespace is the stripped one throughout.
* Approvals are calls of `/approve` with a valid token of any role.
* An action may be carried out although the agent was told 500, 502 or 503, or
  gave up waiting; `RepeatedOnlyIfCutOff` and `DeniedMeansUndone` hold with the
  exception of a first attempt that a proxy cut off with a 503.
* `DevTokensStayOutside` covers the default of `config.py`, which the import guard
  compares with. The placeholder JWT_SECRET of `k8s/gateway/deployment.yaml:46` is in
  the repository, too, and is a secret like any other to the code.

Seen while modelling and not the subject of a run:

* The client's `GatewayConnectionError` says "Cannot reach the gateway", also when
  the gateway received the request and acts on it after the client's timeout.
* The policy allows the verbs `apply` and `watch`, which the dispatch table does
  not know: they end in 502. The ClusterRole grants `watch` and `update`, which
  the client never uses, though its comment claims no more than is needed.
* A patch of somebody else's Deployment whose container has another name adds a
  second container; ports are merged by number and accumulate.
* `_build_deployment` says that limits "are always included so the resulting
  manifest passes the Gatekeeper K8sRequireLimits constraint"
  (`src/app/k8s/client.py:287-288`). A patch with `cpu_limit` or `memory_limit` null
  deletes the limit: the agent is answered 200 and no new pod is admitted.
  `OwnWorkIsAdmitted` names this as its one exception.
* Gatekeeper admits images such as `nginx` without a colon, which the policy
  denies; `_build_deployment`'s comment (`src/app/k8s/client.py:288-289`) promises
  a security context that parameters override, and reads no such parameters.
* `list_secrets` of the agent client claims to need the deployer role; the policy
  lets `readonly` list secrets.
* The docstring of `demo/agent_client.py` expects a delete in `kube-system` to be
  queued; the policy denies every delete, as scenario 3 of the same file says.

## 6. Not modelled, and the plan

Left out, with the reason:

* FastAPI's own 422/403 for malformed requests, `GET /pending` and `GET /health`:
  they change no state. A client that closes its connection: the handler runs on.
  Retries inside urllib3.
* Pods created by a surge or the HPA (their state is that of a fresh replica),
  the network policy and resource limits of the gateway's own Deployment.
* Names in upper case, which every side lowers, except that the client keeps a
  namespace as it is and the API server refuses it; negative replica counts; the
  values of limits and requests beyond good, null and bad, and requests that are
  null, too; objects other than Deployments, which the
  client only reads; init containers and Pods people create without a Deployment
  (Gatekeeper).
* The structured logger, Falco rules, demo, build and CI: nothing in the request
  path reads or waits for them.

What remains of the plan is Gatekeeper for Pods and init containers.
