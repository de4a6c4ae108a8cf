------------------------------- MODULE Script -------------------------------
(***************************************************************************)
(* The script interpreter (script/interpreter.cpp): EvalScript, a stack    *)
(* machine without loops, and VerifyScript, which runs the input's script, *)
(* the output's script on the stack it leaves and, for pay-to-script-hash, *)
(* the script that the input carries.                                      *)
(*                                                                         *)
(* A script is any sequence of instructions: one step executes the next    *)
(* one.  A stack element is a small number in its minimal encoding, or a   *)
(* hash, which is too long to be a number.  stack.at out of range and      *)
(* popstack of an empty stack throw in the source; here they leave Thrown. *)
(***************************************************************************)
EXTENDS Integers, Sequences, FiniteSets, SequencesExt

CONSTANTS
    SigOps,           \* the instructions of the input's script
    PubKeyOps,        \* of the output's script, and of the script in the input
    Starts,           \* <<>>, where the input's script begins, and stacks that longer
                      \* ones of pushes have left
    ValidSigs,        \* the pairs of a signature and a key for which CheckSig holds
    ScriptFlags,      \* the sets of flags that VerifyScript is called with
    MaxSigLen, MaxScriptLen,   \* the lengths of the scripts
    MaxOpsPerScript, MaxPubKeys, MaxStackSize

VARIABLES
    stack, altstack, vfExec, nOpCount,
    stackCopy,      \* of VerifyScript
    running,        \* the script that is evaluated: "sig", "pubkey", "redeem", then "done"
    length,         \* the instructions of it so far
    p2sh,           \* whether the output's script is HASH160 <hash> EQUAL
    pushOnly,       \* whether the input's script only pushes
    flags,
    serror          \* "ok", or the error with which EvalScript or VerifyScript returned

scriptVars == <<stack, altstack, vfExec, nOpCount, stackCopy, running, length, p2sh, pushOnly, flags, serror>>

HashValue == 1000     \* what a hash operation pushes
Thrown == -1000
Pushes == -1..16
True == 1
False == 0

ScriptInit ==
    /\ stack \in Starts
    /\ altstack = <<>> /\ vfExec = <<>> /\ nOpCount = 0
    /\ stackCopy = <<>>
    /\ running = "sig" /\ length = IF stack = <<>> THEN 0 ELSE MaxSigLen
    /\ p2sh \in BOOLEAN
    /\ pushOnly = TRUE
    /\ flags \in ScriptFlags
    /\ serror = "ok"

-----------------------------------------------------------------------------
(* Access to a stack: Top(s, i) is stacktop(-i).                           *)

Top(s, i) == IF i \in 1..Len(s) THEN s[Len(s) + 1 - i] ELSE Thrown
Pop(s, n) == IF n <= Len(s) THEN SubSeq(s, 1, Len(s) - n) ELSE <<Thrown>>
Erase(s, i) == IF i \in 1..Len(s) THEN RemoveAt(s, Len(s) + 1 - i) ELSE <<Thrown>>

CastToBool(v) == v # 0
Size(v) == IF v = 0 THEN 0 ELSE IF v = HashValue THEN 20 ELSE 1
IsNumber(v) == v # HashValue        \* at most four bytes, or CScriptNum throws
Bool(b) == IF b THEN True ELSE False

fExec == \A i \in DOMAIN vfExec : vfExec[i]

\* The elements that an instruction asks for before it touches the stack.
Needs(op) ==
    CASE op \in {"VERIFY", "TOALTSTACK", "IFDUP", "DROP", "DUP", "SIZE", "ADD1", "NEGATE", "NOT",
                 "HASH160"} -> 1
      [] op \in {"DROP2", "DUP2", "NIP", "OVER", "PICK", "ROLL", "SWAP", "TUCK", "EQUAL",
                 "EQUALVERIFY", "ADD", "BOOLAND", "NUMEQUALVERIFY", "LESSTHAN", "MAX", "CHECKSIG",
                 "CHECKSIGVERIFY"} -> 2
      [] op \in {"DUP3", "ROT", "WITHIN"} -> 3
      [] op \in {"OVER2", "SWAP2"} -> 4
      [] op = "ROT2" -> 6
      [] OTHER -> 0

\* The stack after an instruction that moves elements about.
Moved(op, s) ==
    CASE op = "DROP2" -> Pop(s, 2)
      [] op = "DUP2"  -> s \o <<Top(s, 2), Top(s, 1)>>
      [] op = "DUP3"  -> s \o <<Top(s, 3), Top(s, 2), Top(s, 1)>>
      [] op = "OVER2" -> s \o <<Top(s, 4), Top(s, 3)>>
      [] op = "ROT2"  -> Erase(Erase(s, 6), 5) \o <<Top(s, 6), Top(s, 5)>>
      [] op = "SWAP2" -> Pop(s, 4) \o <<Top(s, 2), Top(s, 1), Top(s, 4), Top(s, 3)>>
      [] op = "IFDUP" -> IF CastToBool(Top(s, 1)) THEN Append(s, Top(s, 1)) ELSE s
      [] op = "DEPTH" -> Append(s, Len(s))
      [] op = "DROP"  -> Pop(s, 1)
      [] op = "DUP"   -> Append(s, Top(s, 1))
      [] op = "NIP"   -> Erase(s, 2)
      [] op = "OVER"  -> Append(s, Top(s, 2))
      [] op = "ROT"   -> Pop(s, 3) \o <<Top(s, 2), Top(s, 1), Top(s, 3)>>
      [] op = "SWAP"  -> Pop(s, 2) \o <<Top(s, 1), Top(s, 2)>>
      [] op = "TUCK"  -> Pop(s, 2) \o <<Top(s, 1), Top(s, 2), Top(s, 1)>>
      [] op = "SIZE"  -> Append(s, Size(Top(s, 1)))

MoveOps == {"DROP2", "DUP2", "DUP3", "OVER2", "ROT2", "SWAP2", "IFDUP", "DEPTH", "DROP", "DUP",
            "NIP", "OVER", "ROT", "SWAP", "TUCK", "SIZE"}

\* The value of an arithmetic instruction on its operands, the lowest first.
Value(op, x) ==
    CASE op = "ADD1"   -> x[1] + 1
      [] op = "NEGATE" -> - x[1]
      [] op = "NOT"    -> Bool(x[1] = 0)
      [] op = "ADD"    -> x[1] + x[2]
      [] op = "BOOLAND" -> Bool(x[1] # 0 /\ x[2] # 0)
      [] op = "NUMEQUALVERIFY" -> Bool(x[1] = x[2])
      [] op = "LESSTHAN" -> Bool(x[1] < x[2])
      [] op = "MAX"    -> IF x[1] > x[2] THEN x[1] ELSE x[2]
      [] op = "WITHIN" -> Bool(x[2] <= x[1] /\ x[1] < x[3])

NumericOps == {"ADD1", "NEGATE", "NOT", "ADD", "BOOLAND", "NUMEQUALVERIFY", "LESSTHAN", "MAX", "WITHIN"}

-----------------------------------------------------------------------------
(* CHECKMULTISIG.                                                          *)

\* A key with a valid signature is used for the next signature again.
KeysUsedKeep(ok) == IF ok THEN 0 ELSE 1

\* A key is used up by a comparison, whatever comes of it.
KeysUsed(ok) == 1

\* The loop over the signatures at isig and the keys at ikey: sigs and keys are left.
RECURSIVE Matches(_, _, _, _, _)
Matches(s, isig, sigs, ikey, keys) ==
    IF sigs = 0 THEN TRUE
    ELSE IF sigs > keys THEN FALSE
    ELSE LET ok == <<Top(s, isig), Top(s, ikey)>> \in ValidSigs
             found == IF ok THEN 1 ELSE 0
         IN  Matches(s, isig + found, sigs - found, ikey + KeysUsed(ok), keys - KeysUsed(ok))

\* The error, the stack and the operations that it counts for.
CheckMultisig(s, ops) ==
    LET keys == Top(s, 1)
        i1 == 2 + keys                       \* where the number of signatures is
        sigs == Top(s, i1)
        i2 == i1 + 1 + sigs                  \* the dummy, after the signatures
        success == Matches(s, i1 + 1, sigs, 2, keys)
        Fail(err, n) == [err |-> err, stack |-> s, ops |-> n]
    IN  IF Len(s) < 1 THEN Fail("stack", ops)
        ELSE IF ~ IsNumber(keys) THEN Fail("unknown", ops)
        ELSE IF keys < 0 \/ keys > MaxPubKeys THEN Fail("pubkey count", ops)
        ELSE IF ops + keys > MaxOpsPerScript THEN Fail("op count", ops + keys)
        ELSE IF Len(s) < i1 THEN Fail("stack", ops + keys)
        ELSE IF ~ IsNumber(sigs) THEN Fail("unknown", ops + keys)
        ELSE IF sigs < 0 \/ sigs > keys THEN Fail("sig count", ops + keys)
        ELSE IF Len(s) < i2 - 1 THEN Fail("stack", ops + keys)
        ELSE IF Len(s) < i2 THEN Fail("stack", ops + keys)
        ELSE IF "NULLDUMMY" \in flags /\ Size(Top(s, i2)) # 0 THEN Fail("nulldummy", ops + keys)
        ELSE [err |-> "ok", stack |-> Append(Pop(s, i2), Bool(success)), ops |-> ops + keys]

-----------------------------------------------------------------------------
(* One instruction of EvalScript.                                          *)

\* One element beyond the stack may be picked.
InRangePast(n, size) == n >= 0 /\ n <= size

\* What PICK and ROLL accept, of a stack without the operand.
InRange(n, size) == n >= 0 /\ n < size

\* What an executed instruction makes of the stacks: [err, stack, alt, ops].
Outcome(op) ==
    LET s == stack
        R(err, st, alt, ops) == [err |-> err, stack |-> st, alt |-> alt, ops |-> ops]
        Ok(st) == R("ok", st, altstack, nOpCount + 1)
        Fail(err) == R(err, s, altstack, nOpCount + 1)
        n == Top(s, 1)
        \* the operand is popped before the comparison
        picked == Pop(s, 1)
        multi == CheckMultisig(s, nOpCount + 1)
        Verified(ok, st, err) == IF ok THEN Ok(st) ELSE Fail(err)
        args == SubSeq(s, Len(s) + 1 - Needs(op), Len(s))
        sig == <<Top(s, 2), Top(s, 1)>> \in ValidSigs
    IN  CASE op = "CHECKMULTISIG" -> R(multi.err, multi.stack, altstack, multi.ops)
          [] op = "FROMALTSTACK" ->
                IF altstack = <<>> THEN Fail("altstack")
                ELSE R("ok", Append(s, Last(altstack)), Front(altstack), nOpCount + 1)
          [] op = "NOP" -> Ok(s)
          [] op = "NOP1" -> IF "NOPS" \in flags THEN Fail("nops") ELSE Ok(s)
          [] op = "RETURN" -> Fail("return")
          [] op = "CODESEPARATOR" -> Ok(s)
          [] Len(s) < Needs(op) -> Fail("stack")
          [] op \in MoveOps -> Ok(Moved(op, s))
          [] op = "VERIFY" -> Verified(CastToBool(n), Pop(s, 1), "verify")
          [] op = "TOALTSTACK" -> R("ok", Pop(s, 1), Append(altstack, n), nOpCount + 1)
          [] op \in {"PICK", "ROLL"} ->
                IF ~ IsNumber(n) THEN Fail("unknown")
                ELSE IF ~ InRange(n, Len(picked)) THEN Fail("stack")
                ELSE Ok(Append(IF op = "ROLL" THEN Erase(picked, n + 1) ELSE picked, Top(picked, n + 1)))
          [] op = "EQUAL" -> Ok(Append(Pop(s, 2), Bool(Top(s, 1) = Top(s, 2))))
          [] op = "EQUALVERIFY" -> Verified(Top(s, 1) = Top(s, 2), Pop(s, 2), "equalverify")
          [] op \in NumericOps ->
                IF \E i \in DOMAIN args : ~ IsNumber(args[i]) THEN Fail("unknown")
                ELSE IF op = "NUMEQUALVERIFY" THEN Verified(args[1] = args[2], Pop(s, 2), "numequalverify")
                ELSE Ok(Append(Pop(s, Needs(op)), Value(op, args)))
          [] op = "HASH160" -> Ok(Append(Pop(s, 1), HashValue))
          [] op = "CHECKSIG" -> Ok(Append(Pop(s, 2), Bool(sig)))
          [] op = "CHECKSIGVERIFY" -> Verified(sig, Pop(s, 2), "checksigverify")

Conditionals == {"IF", "NOTIF", "ELSE", "ENDIF"}

\* The result of the step: an exception, the limits, or the new state.
Conclude(err, st, alt, exec, ops) ==
    /\ stack' = st /\ altstack' = alt /\ vfExec' = exec /\ nOpCount' = ops
    /\ serror' = IF Thrown \in Range(st) THEN "thrown"
                 ELSE IF err # "ok" THEN err
                 ELSE IF Len(st) + Len(alt) > MaxStackSize THEN "stack size" ELSE "ok"

\* Every instruction above OP_16 counts, executed or not.
CountOps(op) == nOpCount + 1

Conditional(op) ==
    LET value == IF op = "NOTIF" THEN ~ CastToBool(Top(stack, 1)) ELSE CastToBool(Top(stack, 1))
        Unbalanced == Conclude("unbalanced", stack, altstack, vfExec, CountOps(op))
    IN  \/ /\ op \in {"IF", "NOTIF"} /\ fExec
           /\ IF stack = <<>> THEN Unbalanced
              ELSE Conclude("ok", Pop(stack, 1), altstack, Append(vfExec, value), CountOps(op))
        \/ /\ op \in {"IF", "NOTIF"} /\ ~ fExec
           /\ Conclude("ok", stack, altstack, Append(vfExec, FALSE), CountOps(op))
        \/ /\ op \in {"ELSE", "ENDIF"} /\ vfExec = <<>> /\ Unbalanced
        \/ /\ op = "ELSE" /\ vfExec # <<>>
           /\ Conclude("ok", stack, altstack, Append(Front(vfExec), ~ Last(vfExec)), CountOps(op))
        \/ /\ op = "ENDIF" /\ vfExec # <<>>
           /\ Conclude("ok", stack, altstack, Front(vfExec), CountOps(op))

\* A push counts for nothing, and is skipped like the others.
Push(v) == Conclude("ok", IF fExec THEN Append(stack, v) ELSE stack, altstack, vfExec, nOpCount)

Instruction(op) ==
    \/ /\ CountOps(op) > MaxOpsPerScript
       /\ Conclude("op count", stack, altstack, vfExec, CountOps(op))
    \/ /\ CountOps(op) <= MaxOpsPerScript
       /\ \/ op = "CAT" /\ Conclude("disabled", stack, altstack, vfExec, CountOps(op))
          \/ op \in Conditionals /\ Conditional(op)
          \/ /\ op \notin Conditionals \cup {"CAT"} /\ ~ fExec
             /\ Conclude("ok", stack, altstack, vfExec, CountOps(op))
          \/ /\ op \notin Conditionals \cup {"CAT"} /\ fExec
             /\ \E r \in {Outcome(op)} : Conclude(r.err, r.stack, r.alt, vfExec, r.ops)

-----------------------------------------------------------------------------
(* VerifyScript.                                                           *)

\* The next instruction of the script that is running.  The output's script of a
\* pay-to-script-hash is HASH160 <hash> EQUAL.
EvalStep ==
    /\ running # "done" /\ serror = "ok"
    /\ length' = length + 1
    /\ \/ /\ running = "sig" /\ length < MaxSigLen
          /\ \/ \E v \in Pushes \cap SigOps.push : Push(v) /\ UNCHANGED pushOnly
             \/ \E op \in SigOps.op : Instruction(op) /\ pushOnly' = FALSE
       \/ /\ running = "pubkey" /\ p2sh /\ length < 3
          /\ CASE length = 0 -> Instruction("HASH160")
               [] length = 1 -> \E h \in {HashValue, 0} : Push(h)
               [] length = 2 -> Instruction("EQUAL")
          /\ UNCHANGED pushOnly
       \/ /\ running = "redeem" \/ (running = "pubkey" /\ ~ p2sh)
          /\ length < MaxScriptLen
          /\ \/ \E v \in Pushes \cap PubKeyOps.push : Push(v)
             \/ \E op \in PubKeyOps.op : Instruction(op)
          /\ UNCHANGED pushOnly
    /\ UNCHANGED <<stackCopy, running, p2sh, flags>>

\* The next script begins, with the given stack and everything else fresh.
Enter(next, st) ==
    /\ running' = next /\ stack' = st
    /\ length' = 0 /\ altstack' = <<>> /\ vfExec' = <<>> /\ nOpCount' = 0
    /\ UNCHANGED serror

Return(err) ==
    /\ running' = "done" /\ serror' = err
    /\ UNCHANGED <<stack, length, altstack, vfExec, nOpCount>>

IsTrue == stack # <<>> /\ CastToBool(Last(stack))

\* CLEANSTACK is looked at in the end only.
Accept == Return(IF "CLEANSTACK" \in flags /\ Len(stack) # 1 THEN "cleanstack" ELSE "valid")

\* EvalScript returns; what VerifyScript does next.  The source reads the whole input's
\* script for SIGPUSHONLY before it runs it; here that is known at its end.
EvalDone ==
    /\ running # "done" /\ serror = "ok"
    /\ p2sh /\ running = "pubkey" => length = 3
    /\ UNCHANGED <<p2sh, pushOnly, flags>>
    /\ \/ vfExec # <<>> /\ Return("unbalanced") /\ UNCHANGED stackCopy
       \/ /\ vfExec = <<>> /\ running = "sig"
          /\ IF "SIGPUSHONLY" \in flags /\ ~ pushOnly
               THEN Return("sig pushonly") /\ UNCHANGED stackCopy
               ELSE Enter("pubkey", stack) /\ stackCopy' = IF "P2SH" \in flags THEN stack ELSE <<>>
       \/ /\ vfExec = <<>> /\ running = "pubkey"
          /\ IF ~ IsTrue THEN Return("eval false") /\ UNCHANGED stackCopy
             ELSE IF ~ ("P2SH" \in flags /\ p2sh) THEN Accept /\ UNCHANGED stackCopy
             ELSE IF ~ pushOnly THEN Return("sig pushonly") /\ UNCHANGED stackCopy
             ELSE IF stackCopy = <<>> THEN Return("assertion") /\ UNCHANGED stackCopy
             ELSE Enter("redeem", Pop(stackCopy, 1)) /\ stackCopy' = stack
       \/ /\ vfExec = <<>> /\ running = "redeem"
          /\ IF IsTrue THEN Accept ELSE Return("eval false")
          /\ UNCHANGED stackCopy

ScriptNext == EvalStep \/ EvalDone

ScriptSpec == ScriptInit /\ [][ScriptNext]_scriptVars

-----------------------------------------------------------------------------
\* No script reaches beyond the stack: every instruction asks for what it touches, with
\* any stack, and the counts that a script gives to PICK, ROLL and CHECKMULTISIG are
\* checked before they are used.  The assertion of VerifyScript holds.  The limits on
\* operations and on the size of the stacks hold while a script runs.
ScriptStaysInBounds ==
    /\ serror \notin {"thrown", "assertion"}
    /\ serror = "ok" => nOpCount <= MaxOpsPerScript /\ Len(stack) + Len(altstack) <= MaxStackSize

\* The signatures that CHECKMULTISIG finds, by the definition: they are valid for keys
\* in the same order.  Positions are those of Top.
InOrder(s, isig, sigs, ikey, keys) ==
    \E f \in [1..sigs -> 1..keys] :
        /\ \A i, j \in 1..sigs : i < j => f[i] < f[j]
        /\ \A i \in 1..sigs : <<Top(s, isig + i - 1), Top(s, ikey + f[i] - 1)>> \in ValidSigs

\* CHECKMULTISIG decides in one pass, giving up early: the result is that there are keys
\* in the order of the signatures for which all of them are valid, and the stack loses
\* exactly the arguments and the dummy.
MultisigExact ==
    \E r \in {CheckMultisig(stack, 0)} :
        r.err = "ok" =>
            LET keys == Top(stack, 1)
                sigs == Top(stack, keys + 2)
            IN  r.stack = Append(SubSeq(stack, 1, Len(stack) - keys - sigs - 3),
                                 Bool(InOrder(stack, keys + 3, sigs, 2, keys)))
=============================================================================
