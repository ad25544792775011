------------------------------- MODULE MCCron -------------------------------
(* Cron for TLC: three commands and two moments in June.                   *)
EXTENDS Cron

CONSTANTS backup, mail, broken   \* model values

Three == {backup, mail, broken}

Items == INSTANCE Schedule
Always == <<Items!Star>>
Number(digits) == <<Items!Item(FALSE, digits, Items!None, Items!None)>>
PerZero == <<Items!Item(TRUE, Items!None, Items!None, <<0>>)>>

Fields5(min, hour) ==
  [min |-> min, hour |-> hour, mday |-> Always, month |-> Always, wday |-> Always]

(* backup: every minute; mail: at 9:30; broken: a period that is accepted  *)
(* and kills the daemon.                                                   *)
Crontab3 ==
  (backup :> Fields5(Always, Always)) @@ (mail :> Fields5(Number(<<3, 0>>), Number(<<9>>)))
    @@ (broken :> Fields5(Always, PerZero))

Moment(min, hour, mon) == [min |-> min, hour |-> hour, mday |-> 8, month |-> mon, wday |-> 1]

June == <<Moment(29, 9, 5), Moment(30, 9, 5)>>
January == <<Moment(29, 9, 0)>>
=============================================================================
