-------------------------------- MODULE MCCron --------------------------------
(* A month that begins on a Monday. *)
EXTENDS Cron

MCDayFields == {Every, {1, 15}}
MCWeekFields == {Every, {1}, {7}}

=============================================================================
