------------------------------ MODULE Pipeline ------------------------------
(* run_to_ir on one function: the repairs around and behind the optimizer, *)
(* in their order, up to the final passes (the Correctness module).  The   *)
(* passes of the optimizer itself are in other modules; a repair only      *)
(* reads the body, the signature, the registry and the hints.              *)
EXTENDS FirstRepairs, LateRepairs

CONSTANT Programs       \* [fn |-> the signature with its hints, source |-> what
                        \*  was compiled, lifted |-> what the lifter made of it]

VARIABLES fn, source, body, stage, fired        \* source and fired: history
vars == <<fn, source, body, stage, fired>>

Order == <<"roundtrip", "tokens", "tags", "guards", "passthrough", "reconstruction", "artifactLoop",
           "trailingPanic", "voidPanic", "wrapperPanic", "panicShell", "lonePanic",
           "4b", "4b3", "4b3b", "4b4", "4b4b", "4b5", "4b6", "4b2", "4c", "4c2", "4c3",
           "4c4", "4c5", "4c6", "4c7", "4d", "4e", "4f", "4g", "4h", "4h2", "4i", "4j", "4k", "4p", "4l",
           "4m", "4m2", "4m3", "4m4", "4m5", "4m6", "4m7", "4n", "4n2", "4o", "4p2", "4p3", "4q", "4r",
           "4s", "4t", "4t2", "4w", "4u", "4v", "4w again", "4x", "4y", "done">>

After == [s \in ToSet(Front(Order)) |-> Order[SelectInSeq(Order, LAMBDA x : x = s) + 1]]

Init == /\ \E p \in Programs : fn = p.fn /\ source = p.source /\ body = p.lifted
        /\ stage = Order[1] /\ fired = {}

Repair(s, new) ==
    /\ stage = s
    /\ body' = new
    /\ stage' = After[s]
    /\ fired' = IF new = body THEN fired ELSE fired \cup {s}
    /\ UNCHANGED source
Pass(s, new)  == Repair(s, new) /\ UNCHANGED fn
TakesEnv_Never(new) == UNCHANGED fn
TakesEnv(new) == fn' = [fn EXCEPT !.takesEnv = @ \/ new # body]     \* a body that was rebuilt reads storage
Getter(s, new) == Repair(s, new) /\ TakesEnv(new)

(* Per function, around the optimizer. *)
AroundOptimizer ==
    \/ Pass("roundtrip", RecoverEnumRoundtrip(fn, body))
    \/ Pass("tokens", RecoverTokensSortedValidation(body))
    \/ Pass("tags", FoldTautologicalTagGuards(body, fn.params))
    \/ Pass("guards", IF IsVoid(fn.ret) THEN DropVoidUnknownGuards(body) ELSE body)
    \/ Pass("passthrough", RecoverPassthrough(fn, body))
    \/ Pass("reconstruction", RecoverReconstruction(fn, body))
    \/ Pass("artifactLoop", UnwrapArtifactLoop(fn, body))
    \/ Pass("trailingPanic", DropTrailingPanic(fn, body))
    \/ Pass("voidPanic", DropVoidPanic(fn, body))
    \/ Pass("wrapperPanic", AppendWrapperPanic(fn, body))
    \/ Pass("panicShell", StubPanicShell(fn, body))
    \/ Pass("lonePanic", StubLonePanic(fn, body))

(* Stage by stage over all functions. *)
Recover ==
    \/ Pass("4b", SetInvokeReturnTypeInTail(fn, body))
    \/ Pass("4b3", WrapTailVecGetUnwrap(fn, body))
    \/ Pass("4b3b", StripLeakedFoldScalar(body))
    \/ Pass("4b4", RecoverCryptoFieldArgs(fn, body))
    \/ Pass("4b4b", LowerBytesNew(body))
    \/ Pass("4b5", RecoverEnumPayloadBindings(body))
    \/ Pass("4b6", RecoverResultOptionMatch(fn, body))
    \/ Pass("4b2", ReplaceVoidWithNone(body))
    \/ Pass("4c", RecoverMatchArmStorageKeys(body))
    \/ Pass("4c2", RecoverExtendTtlKeys(body))
    \/ Pass("4c3", MergeOrphanLedger(body))
    \/ Pass("4c4", RepairKeys(body, fn.hints))
    \/ Pass("4c5", RepairEvents(body, fn.hints))
    \/ Pass("4c6", RepairInvokes(body, fn.hints))
    \/ Pass("4c7", RepairAuth(body, fn.hints))
    \/ Pass("4d", RemoveTrailingLen(fn, body))
    \/ Pass("4e", IF fn.ret = <<"Option">> THEN RemoveStorageUnwrap(body) ELSE body)

FillIn ==
    \/ Pass("4f", ResolveParamLocals(fn, body))
    \/ Repair("4g", body) /\ fn' = [fn EXCEPT !.takesEnv = @ /\ UsesEnv(body)]
    \/ Pass("4h", ResolveUnusedInvokeParams(fn, body))
    \/ Pass("4h2", ResolveUnboundInvokeLocals(body))
    \/ Pass("4i", PromoteMatchArms(fn, body))
    \/ Pass("4j", RecoverEnumCastArms(body))
    \/ Pass("4k", ReplaceMatchArmArtifactRefs(body))
    \/ Pass("4p", RecoverStructFieldArms(fn, body))
    \/ Pass("4l", RecoverEventPublish(fn, body))
    \/ Pass("4m", RecoverEnumKeyConstruction(body))
    \/ Pass("4m2", FixMisidentifiedInstanceKeys(body))
    \/ Pass("4m3", HoleMistypedFields(body))
    \/ Pass("4m4", FoldOptionVoidCompares(body))
    \/ Pass("4m5", HolePureRawReads(body))
    \/ Pass("4m6", RepairKeyAdoptedDefaults(body))
    \/ Pass("4m7", UnifyBoolLocals(body))

Finish ==
    \/ Pass("4n", FixBoolLiteralReturns(fn, body))
    \/ Pass("4n2", FixBoolInStorageSet(body))
    \/ Pass("4o", StripVoidReturns(fn, body))
    \/ Pass("4p2", ConvertVecToTupleReturn(fn, body))
    \/ Pass("4p3", CoerceWideReads(fn, body))
    \/ Pass("4q", ReplaceIncompleteStruct(fn, body))
    \/ Pass("4r", StripTrailingPanic(fn, body))
    \/ Getter("4s", RecoverMapUnpackGetter(fn, body))
    \/ Getter("4t", RecoverBrokenGetter(fn, body))
    \/ Pass("4t2", BindOrphanLoads(fn, body))
    \/ Pass("4w", ResolveUnknownKeyFields(body))
    \/ Pass("4u", RemoveSymbolParamShadows(fn, body))
    \/ Pass("4v", RecoverHasGetReturn(fn, body))
    \/ Pass("4w again", ResolveUnknownKeyFields(body))
    \/ Pass("4x", FixRequireAuthOnEnumKey(body))
    \/ Pass("4y", ResolveEventDataParams(fn, body))

Done == stage = "done" /\ UNCHANGED vars
Next == AroundOptimizer \/ Recover \/ FillIn \/ Finish \/ Done
Spec == Init /\ [][Next]_vars
=============================================================================
