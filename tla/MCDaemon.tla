------------------------------ MODULE MCDaemon ------------------------------
(* Daemon on a small instance: three daemons, a log_path with the day in it. *)
EXTENDS Daemon, TLC

CONSTANTS today, tomorrow, fallback

MCFiles == {today, tomorrow, fallback}
MCPathAt == [w \in {"daily"} \X (0..MaxTime) |-> IF w[2] = 0 THEN today ELSE tomorrow]

Setting(type, mode, path, size, age) ==
  [type |-> type, level |-> INFO, mode |-> mode, path |-> path, size |-> size, age |-> age]
MCSettings == {Setting("file", "append", "daily", 2, 1),
               Setting("file", "create", "daily", 2, 0),
               Setting("file", "append", NoPath, 1, 1),
               Setting("console", "append", "daily", 1, 0)}

Symmetry == Permutations(Daemons)
=============================================================================
