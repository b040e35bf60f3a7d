----------------------------- MODULE TraceContext -----------------------------
(***************************************************************************)
(* Which call chain a decision joins: the API key gate of src/auth.py, the *)
(* header signatures of src/context_hmac.py, _trace_context and            *)
(* _signed_trace_headers of src/main.py, and the tree that                 *)
(* Storage.get_trace reads back.  Headers travel through agents that       *)
(* may lose, keep, repeat or change them; a signature is a value that only *)
(* the gateway and the services that hold CONTEXT_HMAC_KEY can make.       *)
(*                                                                         *)
(* A decision's id is its number; a chain the gateway opens is named by    *)
(* the decision that opened it (a new UUID in the code).                   *)
(***************************************************************************)
EXTENDS Integers, Sequences, FiniteSets, SequencesExt

CONSTANTS
  TenantConfig,    \* contents of tenants.yaml: sequences of [id, keys]
  ApiKey,          \* keys that requests carry, Absent included
  ShortKey,        \* those shorter than MIN_API_KEY_LEN
  ClockSkew,       \* MAX_CLOCK_SKEW_S
  MaxRows,         \* bound on stored decisions
  MaxSigned,       \* bound on what other services sign
  TraceHorizon,    \* bound on the clock
  Absent, TooLong, \* a header that is missing or empty, one over MAX_TRACE_ID_LEN
  Unsigned,        \* headers that carry no signature
  NullParent, EmptyText   \* NULL and the empty text in a stored column

VARIABLES
  hmacOn,          \* CONTEXT_HMAC_KEY is set
  tenantOf,        \* TenantAuth._tenant_keys, <<>> while authentication is off
  traceRows,       \* decisions: [trace, parent], and the request behind each
  traceSigs,       \* every signature made: its text and time, and the headers asked for
  traceNow

traceContextVars == <<hmacOn, tenantOf, traceRows, traceSigs, traceNow>>

Id == 1..MaxRows
-----------------------------------------------------------------------------
(* the API key gate                                                        *)

\* TenantAuth.from_dict: anything doubtful refuses the whole file - a tenant
\* named twice, one without keys, a short key, a key met before.
AuthLoads(config) ==
  /\ config # <<>>
  /\ IsInjective([i \in DOMAIN config |-> config[i].id])
  /\ \A i \in DOMAIN config :
       LET keys == config[i].keys
       IN  /\ keys # <<>> /\ IsInjective(keys)
           /\ ToSet(keys) \cap ShortKey = {}
           /\ \A j \in DOMAIN config \ {i} : ToSet(keys) \cap ToSet(config[j].keys) = {}

KeysOf(config) ==
  [k \in UNION {ToSet(config[i].keys) : i \in DOMAIN config} |->
     config[CHOOSE i \in DOMAIN config : k \in ToSet(config[i].keys)].id]

\* resolve_tenant: 401 without a known key, 403 for another tenant's name.
Admitted(key, declared) ==
  \/ tenantOf = <<>>
  \/ /\ key \in DOMAIN tenantOf
     /\ declared \in {Absent, tenantOf[key]}
-----------------------------------------------------------------------------
(* signatures                                                              *)

\* Mutant: the parent is left out of the signed text.
Canonical_NoParent(h) == [trace |-> h.trace, parent |-> Absent, span |-> h.span]

Canonical(h) == [trace |-> h.trace, parent |-> h.parent, span |-> h.span]

SignHeaders(h) ==
  [text |-> Canonical(h), ts |-> traceNow, trace |-> h.trace, parent |-> h.parent]

VerifyHeaders(h) ==
  /\ h.sig # Unsigned
  /\ traceNow - h.sig.ts \in -ClockSkew..ClockSkew
  /\ h.sig.text = Canonical(h)

Text(v) == IF v = Absent THEN EmptyText ELSE v

\* validate_trace_headers: verified headers are taken as they are, a missing one
\* as empty text; a valid signature over no trace and no parent reads like none.
Nobody == [trace |-> EmptyText, parent |-> EmptyText]
ValidateTraceHeaders(h) ==
  IF VerifyHeaders(h) THEN [trace |-> Text(h.trace), parent |-> Text(h.parent)] ELSE Nobody

\* _trace_context: what is stored for a request with headers h as decision n.
LengthChecked(ctx, n) ==
  [trace |-> IF ctx.trace = TooLong THEN n ELSE ctx.trace,
   parent |-> IF ctx.parent = TooLong THEN NullParent ELSE ctx.parent]

ContextOf(h, n) ==
  LET root == [trace |-> n, parent |-> NullParent]
      plain == [trace |-> IF h.trace = Absent THEN n ELSE h.trace,
                parent |-> IF h.parent = Absent THEN NullParent ELSE h.parent]
      signed == ValidateTraceHeaders(h)
  IN  LengthChecked(IF ~hmacOn THEN plain ELSE IF signed = Nobody THEN root ELSE signed, n)
-----------------------------------------------------------------------------
TraceContextInit ==
  /\ hmacOn \in BOOLEAN
  /\ \/ tenantOf = <<>>
     \/ \E c \in TenantConfig : AuthLoads(c) /\ tenantOf = KeysOf(c)
  /\ traceRows = <<>>
  /\ traceSigs = {}
  /\ traceNow = 0

Headers ==
  [trace : Id \cup {Absent, TooLong}, parent : Id \cup {Absent, TooLong},
   span : Id \cup {Absent},
   sig : {Unsigned} \cup traceSigs]

\* Ids are UUIDs: an agent knows those of decisions that were answered.
Known(h) ==
  \A v \in {h.trace, h.parent, h.span} : v \in Id => v <= Len(traceRows)

\* A request is admitted, decided, stored and answered with signed headers.
Decision(h, key, declared) ==
  /\ Len(traceRows) < MaxRows
  /\ Known(h)
  /\ Admitted(key, declared)
  /\ LET n == Len(traceRows) + 1
         ctx == ContextOf(h, n)
         answer == [trace |-> ctx.trace, parent |-> Absent, span |-> n]
     IN  /\ traceRows' = Append(traceRows,
                           [trace |-> ctx.trace, parent |-> ctx.parent,
                            sent |-> [trace |-> h.trace, parent |-> h.parent],
                            at |-> traceNow, key |-> key, declared |-> declared])
         /\ traceSigs' = IF hmacOn THEN traceSigs \cup {SignHeaders(answer)} ELSE traceSigs
  /\ UNCHANGED <<hmacOn, tenantOf, traceNow>>

\* A service that holds the key signs the headers of its next call.
ServiceSigns(h) ==
  /\ hmacOn
  /\ Known(h)
  /\ h.sig = Unsigned
  /\ Cardinality(traceSigs) < Len(traceRows) + MaxSigned
  /\ traceSigs' = traceSigs \cup {SignHeaders(h)}
  /\ UNCHANGED <<hmacOn, tenantOf, traceRows, traceNow>>

TraceTick ==
  /\ traceNow < TraceHorizon
  /\ traceNow' = traceNow + 1
  /\ UNCHANGED <<hmacOn, tenantOf, traceRows, traceSigs>>

TraceContextNext ==
  \/ \E h \in Headers, k \in IF tenantOf = <<>> THEN {Absent} ELSE ApiKey,
        d \in {Absent} \cup {tenantOf[x] : x \in DOMAIN tenantOf} : Decision(h, k, d)
  \/ \E h \in Headers : ServiceSigns(h)
  \/ TraceTick

TraceContextSpec == TraceContextInit /\ [][TraceContextNext]_traceContextVars
-----------------------------------------------------------------------------
\* Storage.get_trace: roots without a parent, then children of rows in the tree.
TraceTree(t) ==
  FoldLeft(LAMBDA tree, i :
             IF /\ traceRows[i].trace = t
                /\ traceRows[i].parent = NullParent \/ traceRows[i].parent \in tree
             THEN tree \cup {i} ELSE tree,
           {}, [i \in 1..Len(traceRows) |-> i])

\* With signing on, a decision is below another or in another's chain only when
\* someone who has the key signed that very trace and parent, at most the window
\* away from its arrival; whoever came with lost, old, altered or mixed headers
\* is the root of a chain of its own.  With authentication on, a decision was
\* asked for with a key that one tenant has, under that tenant's name or none.
ChainsAreVouched ==
  LET Signed(row) ==
        \E s \in traceSigs :
          /\ s.trace = row.sent.trace /\ s.parent = row.sent.parent
          /\ row.at - s.ts \in -ClockSkew..ClockSkew
  IN  \A i \in DOMAIN traceRows :
        LET row == traceRows[i]
        IN  /\ hmacOn => Signed(row) \/ (row.trace = i /\ row.parent = NullParent)
            /\ tenantOf # <<>> =>
                 /\ row.key \in DOMAIN tenantOf \ ShortKey
                 /\ row.declared \in {Absent, tenantOf[row.key]}
=============================================================================
