--------------------------- MODULE MCTraceContext ---------------------------
(***************************************************************************)
(* TraceContext as TLC runs it: tenant files, and a sentence of the        *)
(* repository about it that the handler does not keep.                     *)
(***************************************************************************)
EXTENDS TraceContext

\* Two tenants; a key given to both, and a short key, refuse the file.
MCTenants ==
  LET T(id, key) == [id |-> id, keys |-> <<key>>]
  IN  {<<>>, <<T("t1", "k1"), T("t2", "k2")>>, <<T("t1", "k1"), T("t2", "k1")>>, <<T("t1", "s")>>}

\* "X-Parent-Span-ID; missing -> None (root of the chain, anchor of the CTE)"
\* (docstring of _trace_context): a decision whose request named no parent is a
\* root in the tree of its chain.
NoParentIsRoot ==
  \A i \in DOMAIN traceRows :
    traceRows[i].sent.parent = Absent => i \in TraceTree(traceRows[i].trace)
=============================================================================
