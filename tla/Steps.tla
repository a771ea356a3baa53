------------------------------- MODULE Steps --------------------------------
(***************************************************************************)
(* The steps of a test.  A step names a call or a local step, the process  *)
(* it is about, and what the test does with an error, or with an answer    *)
(* that is not the right one:                                              *)
(*   "fatal"     t.Fatal                                                   *)
(*   "mixed"     t.Fatal on an error, t.Error on a wrong answer            *)
(*   "soft"      t.Error                                                   *)
(*   "continue"  t.Error, on an error the next step is left out            *)
(*   "lenient"   t.Error on a wrong answer, an error is fine               *)
(*   "tolerate"  t.Fatal unless the process is gone                        *)
(*   "error"     t.Fatal on an error, any answer is fine                   *)
(*   "ignore"    neither is looked at                                      *)
(*   "expect"    t.Fatal if there is no error                              *)
(*   "return"    the helper returns, the test is not failed                *)
(***************************************************************************)
EXTENDS Sequences

Step(call, who, on) == [call |-> call, who |-> who, on |-> on]
Must(call, who) == Step(call, who, "fatal")
Mixed(call, who) == Step(call, who, "mixed")
Soft(call, who) == Step(call, who, "soft")
Try(call, who) == Step(call, who, "ignore")
Do(call) == Step(call, "none", "fatal")
=============================================================================
