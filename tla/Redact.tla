------------------------------- MODULE Redact -------------------------------
(***************************************************************************)
(* Redaction of rendered text (pf-core/src/analysis.rs, redact_report_     *)
(* identifiers; tokens from pf-core/src/export.rs, session_identifiers).   *)
(*                                                                         *)
(* A line is a sequence of symbols: maximal runs of identifier characters  *)
(* (letters, digits, "_", ".", "-"), single other characters, and values   *)
(* with a shape of their own (a path, a GUID, a MAC or an IP address, the  *)
(* label of a metric).  A bounded match of an identifier is then a match   *)
(* of whole symbols.  Case is ignored throughout, as in the code.          *)
(***************************************************************************)
EXTENDS Integers, Sequences, SequencesExt, FiniteSets, TLC

CONSTANTS
  Shape,        (* Shape[x] for the symbols with a shape                    *)
  Numerals,     (* the symbols that are numbers                             *)
  OneChar,      (* the symbols of one character                             *)
  Builtin       (* names of the standard power schemes                      *)

Placeholder(class) == <<"<", class, ">">>

(* Replace every match, from left to right, by a prefix of the rest: at(i) *)
(* is the replacement and the number of symbols taken, or the symbol there.*)
Rewrite(t, at(_)) ==
  LET go[i \in 1..(Len(t) + 1)] ==
        IF i > Len(t) THEN <<>> ELSE LET r == at(i) IN r.out \o go[i + r.take]
  IN go[1]
Keep(t, i) == [out |-> <<t[i]>>, take |-> 1]
Found(t, i, v) == i + Len(v) - 1 <= Len(t) /\ SubSeq(t, i, i + Len(v) - 1) = v

replace_ci_bounded(t, value, ph) ==
  Rewrite(t, LAMBDA i : IF Found(t, i, value) THEN [out |-> ph, take |-> Len(value)] ELSE Keep(t, i))

(* Mutant: shortest value first, so a part goes before its composite.      *)
longest_last(tokens) == SortSeq(tokens, LAMBDA x, y : Len(x.value) < Len(y.value))

(* The order of the values: a composite before its parts.                  *)
longest_first(tokens) == SortSeq(tokens, LAMBDA x, y : Len(x.value) > Len(y.value))

(* Values of one character are skipped; of equal values the first counts.  *)
Firsts(tokens) ==
  LET kept == SelectSeq([i \in DOMAIN tokens |-> i], LAMBDA i :
                \A j \in 1..(i - 1) : tokens[j].value # tokens[i].value)
  IN [i \in DOMAIN kept |-> tokens[kept[i]]]

mask_identifiers(t, tokens) ==
  LET items == longest_first(Firsts(SelectSeq(tokens, LAMBDA x :
                 x.value # <<>> /\ ~(Len(x.value) = 1 /\ x.value[1] \in OneChar))))
  IN FoldLeft(LAMBDA acc, x : IF acc = <<>> THEN acc ELSE replace_ci_bounded(acc, x.value, x.ph),
              t, items)

MaskShape(t, shapes, class) ==
  Rewrite(t, LAMBDA i : IF t[i] \in DOMAIN Shape /\ Shape[t[i]] \in shapes
                          THEN [out |-> Placeholder(class), take |-> 1] ELSE Keep(t, i))

(* A drive path goes whole; a share loses its host, a profile its account. *)
mask_windows_paths(t) ==
  MaskShape(MaskShape(MaskShape(t, {"drive"}, "path"), {"share"}, "host"), {"profile"}, "user")

key_placeholder ==
  ("ssid" :> "ssid") @@ ("user" :> "user") @@ ("host" :> "host") @@ ("machine" :> "host")
    @@ ("path" :> "path") @@ ("session" :> "redacted") @@ ("label" :> "redacted")
    @@ ("note" :> "redacted") @@ ("detail" :> "redacted") @@ ("device" :> "redacted")
    @@ ("name" :> "redacted") @@ ("gpu" :> "redacted")
is_text_key(k) == k \in {"session", "label", "note", "detail"}
ValueEnd == {" ", ",", ";", ")", "]", "}", "<", ">"}

(* The first position from i on that is not in S.                          *)
Past(t, i, S) ==
  LET stop == {j \in i..Len(t) : t[j] \notin S} IN
  IF stop = {} THEN Len(t) + 1 ELSE CHOOSE j \in stop : \A k \in stop : j <= k
UpTo(t, i, S) ==
  LET stop == {j \in i..Len(t) : t[j] \in S} IN
  IF stop = {} THEN Len(t) + 1 ELSE CHOOSE j \in stop : \A k \in stop : j <= k

(* key: value or key=value; a quoted value ends at its quote, a text key   *)
(* takes the rest of the line, any other the next word.  A value that is   *)
(* already a placeholder stays, and so does the dotted label of a metric   *)
(* where a name may stand (keep_value).                                    *)
is_field_label(v) == Len(v) = 1 /\ v[1] \in DOMAIN Shape /\ Shape[v[1]] = "metric"
keep_value(key, v) == v[1] = "<" \/ (key \in {"name", "device"} /\ is_field_label(v))
mask_keyed_identifiers(t) ==
  Rewrite(t, LAMBDA i :
    LET colon == Past(t, i + 1, {" "})
        from == Past(t, colon + 1, {" "})
        keyed == /\ t[i] \in DOMAIN key_placeholder
                 /\ colon <= Len(t) /\ t[colon] \in {":", "="} /\ from <= Len(t)
        quoted == keyed /\ t[from] = "\""
        first == IF quoted THEN from + 1 ELSE from
        end == IF quoted THEN UpTo(t, first, {"\""})
               ELSE IF is_text_key(t[i]) THEN Len(t) + 1 ELSE UpTo(t, first, ValueEnd)
    IN IF ~keyed \/ end <= first THEN Keep(t, i)
       ELSE IF keep_value(t[i], SubSeq(t, first, end - 1))
         THEN [out |-> SubSeq(t, i, end - 1), take |-> end - i]
       ELSE [out |-> SubSeq(t, i, first - 1) \o Placeholder(key_placeholder[t[i]]), take |-> end - i])

(* DASHBOARD and TIMELINE carry the session label up to a double space.    *)
mask_titled_labels(t) ==
  IF Len(t) < 3 \/ t[1] \notin {"DASHBOARD", "TIMELINE"} \/ t[2] # " " THEN t
  ELSE SubSeq(t, 1, 2) \o Placeholder("redacted") \o SubSeq(t, UpTo(t, 3, {"  "}), Len(t))

mask_guids(t) == MaskShape(t, {"guid"}, "guid")
mask_mac(t) == MaskShape(t, {"mac"}, "mac")
mask_ipv4(t) == MaskShape(t, {"ip"}, "ip")

mask_pids(t) ==
  Rewrite(t, LAMBDA i :
    LET n == Past(t, i + 1, {" ", "=", ":", "#", "\""})
    IN IF t[i] \in {"pid", "ppid"} /\ n <= Len(t) /\ n > i + 1 /\ t[n] \in Numerals
         THEN [out |-> SubSeq(t, i, n - 1) \o Placeholder("pid"), take |-> n - i + 1]
         ELSE Keep(t, i))

redact_finish(t) ==
  mask_ipv4(mask_mac(mask_pids(mask_guids(mask_titled_labels(
    mask_keyed_identifiers(mask_windows_paths(t)))))))

redact_report_identifiers(t, tokens) == redact_finish(mask_identifiers(t, tokens))

-----------------------------------------------------------------------------
(* The tokens of a list of sessions.                                        *)

Token(value, ph) == [value |-> value, ph |-> ph]
Digits(n) == <<ToString(n)>>
is_builtin_power_scheme(name) == name \in Builtin

(* Every process entry has a number of its own, and its pid:name form; an  *)
(* adapter has its name:pid forms.  s.named lists the displays, interfaces,*)
(* networks, USB devices and batteries with their class.                   *)
session_identifiers(sessions, host, user) ==
  LET entries == FlattenSeq([i \in DOMAIN sessions |->
                   FlattenSeq([j \in DOMAIN sessions[i].procs |-> sessions[i].procs[j].top])])
      procs == FlattenSeq([i \in DOMAIN entries |->
                 LET e == entries[i]  ph == <<"process-" \o ToString(i)>> IN
                 <<Token(e.name, ph), Token(Digits(e.pid) \o <<":">> \o e.name, ph)>>])
      gpus(s) == FlattenSeq([i \in DOMAIN s.gpu |-> FlattenSeq([j \in DOMAIN s.gpu[i].adapters |->
                   LET a == s.gpu[i].adapters[j] IN
                   <<Token(a.name, Placeholder("gpu"))>> \o
                     [k \in DOMAIN a.pids |->
                        Token(a.name \o <<":">> \o Digits(a.pids[k]), Placeholder("gpu"))]])])
      rest(s) == [i \in DOMAIN s.named |-> Token(s.named[i].value, Placeholder(s.named[i].class))]
                 \o (IF s.policy.scheme = <<>> \/ is_builtin_power_scheme(s.policy.scheme) THEN <<>>
                     ELSE <<Token(s.policy.scheme, Placeholder("scheme"))>>)
                 \o <<Token(s.label, Placeholder("label"))>>
  IN procs \o FlattenSeq([i \in DOMAIN sessions |-> gpus(sessions[i]) \o rest(sessions[i])])
       \o <<Token(host, Placeholder("host")), Token(user, Placeholder("user"))>>

(* format_csv_cell: quoted when it holds a comma or a quote, which is      *)
(* doubled.                                                                *)
format_csv_cell(v) ==
  IF \A i \in DOMAIN v : v[i] \notin {",", "\""} THEN v
  ELSE <<"\"">> \o FlattenSeq([i \in DOMAIN v |-> IF v[i] = "\"" THEN <<"\"", "\"">> ELSE <<v[i]>>])
         \o <<"\"">>
=============================================================================
