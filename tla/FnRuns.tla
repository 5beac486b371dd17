------------------------------- MODULE FnRuns -------------------------------
(* How a run of a function's body, or of its text, ends for the caller.  A *)
(* function that returns a Result fails alike by Err(e) and by panicking   *)
(* with e; a raw Val is no value of a declared type.                       *)
EXTENDS Codegen, IrRuns

Fails(e, r)   == [sig |-> "panic", val |-> e, trace |-> r.st.trace]
Yields(v, r)  == [sig |-> "value", val |-> v, trace |-> r.st.trace]
Signals(s, r) == [sig |-> s, val |-> <<"unit">>, trace |-> r.st.trace]
Ended(r)      == r.sig \in {"next", "value"}

EndingOf(ret, r) ==
    LET unitOk == IsResult(ret) /\ IsUnitOkType(ret[2])
    IN  CASE r.sig = "panic"                    -> Fails(r.val, r)
          [] ~ Ended(r)                         -> Signals(r.sig, r)
          [] ~ HasReturnType(ret)               -> Yields(<<"unit">>, r)
          [] r.sig = "next" /\ unitOk           -> Yields(<<"unit">>, r)
          [] r.sig = "value" /\ r.val[1] \in {"ContractError", "ErrorFromCode"} /\ IsResult(ret)
                                                -> Fails(r.val, r)
          [] r.val[1] = "err" /\ IsResult(ret)  -> Fails(r.val[2], r)
          [] r.val[1] = "ok" /\ IsResult(ret)   -> Yields(r.val[2], r)
          [] r.sig = "next" /\ (IsResult(ret) \/ r.val = <<"unit">>) -> Signals("novalue", r)
          [] r.val[1] = "raw"                   -> Signals("stuck", r)
          [] OTHER                              -> Yields(r.val, r)
MeaningOf(ret, t, start) ==     \* of a body: what is returned is still bare
    EndingOf(ret, Exec(t, start, 2))
=============================================================================
