--------------------------- MODULE MCArchiveStore ---------------------------
(* ArchiveStore for TLC: lines that show every form a collector can write. *)
EXTENDS ArchiveStore

W(v) == json_num(v, "measured", "transient")
Est(v) == json_num(v, "estimated", "stale")
Odd(v) == [W(v) EXCEPT !.p = "guessed"]
L(c) == [coll |-> c, mono |-> 0, wall |-> 0, win |-> None]

MCCandidates == {
  L("battery") @@ [discharge |-> W(1), remaining |-> W(2), ac |-> Bool(1), full |-> None],
  L("battery") @@ [discharge |-> W(None), remaining |-> Est(2), ac |-> None, full |-> 9],
  L("cpu") @@ [totals |-> FALSE, utility |-> None, cores |-> <<[name |-> "0", w |-> W(1)]>>,
               others |-> <<>>],
  [L("cpu") EXCEPT !.win = 3] @@
    [totals |-> TRUE, utility |-> Est(1), cores |-> <<[name |-> "1", w |-> W(1)], [name |-> "0", w |-> W(None)]>>,
     others |-> <<[name |-> "perf", w |-> W(2)]>>],
  L("gpu") @@ [adapters |-> <<[name |-> "a", discrete |-> TRUE, w |-> W(1)], [name |-> "a", discrete |-> FALSE, w |-> W(2)]>>,
               pids |-> <<>>, stale |-> TRUE],
  L("gpu") @@ [adapters |-> <<[name |-> "b", discrete |-> FALSE, w |-> W(1)]>>,
               pids |-> <<[name |-> "b|1", w |-> W(1)]>>, stale |-> FALSE],
  L("proc") @@ [top |-> <<[pid |-> 1, name |-> "x", start |-> 1, exit |-> None, w |-> W(1)],
                          [pid |-> 2, name |-> "x", start |-> 1, exit |-> None, w |-> W(2)]>>, truncated |-> TRUE],
  L("proc") @@ [top |-> <<[pid |-> 1, name |-> "y", start |-> 2, exit |-> 3, w |-> W(2)]>>, truncated |-> None],
  L("display") @@ [displays |-> <<[name |-> "d", w |-> W(1), mode |-> 2], [name |-> "e", w |-> W(None), mode |-> None]>>,
                   sensors |-> <<[name |-> "s", v |-> 1]>>],
  L("net") @@ [rx |-> Bare(1), adapters |-> <<[name |-> "n", descr |-> "N", oper |-> None, w |-> Bare(2)]>>,
               wifi |-> <<[name |-> "w", ssid |-> "S", w |-> W(1), state |-> "odd"]>>, stale |-> FALSE],
  L("storage") @@ [disks |-> <<[total |-> FALSE, w |-> W(1)], [total |-> TRUE, w |-> W(2)]>>],
  L("usb") @@ [groups |-> <<[name |-> "hid", count |-> None, devices |-> 2],
                            [name |-> "other", count |-> Odd(1), devices |-> 1],
                            [name |-> "audio", count |-> None, devices |-> None]>>, power |-> <<"p">>],
  L("self") @@ [cpu |-> W(1)],
  L("os_power") @@ [scheme |-> "s", ac |-> W(1), dc |-> None],
  L("event") @@ [kind |-> "boost"]}
=============================================================================
