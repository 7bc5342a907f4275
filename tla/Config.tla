------------------------------- MODULE Config -------------------------------
(***************************************************************************)
(* load_config of config.py: which of the places where the operator may    *)
(* write a setting supplies it, and when the whole is refused.             *)
(*                                                                         *)
(* A value is abstracted to what load_config tells apart, and a resolved   *)
(* setting is represented by the place it was taken from.                  *)
(***************************************************************************)

Places == {"args", "env", "file"}

Settings == {"api_id", "api_key", "base_url", "timeout", "live", "ttl", "ceiling",
             "state_dir", "mail_type", "coversheet"}

InTheFileOnly == {"ttl", "ceiling", "mail_type", "coversheet"}

(* "blank" is white space only (an empty string too, except for --state-dir, *)
(* where an empty string is not passed on); "bad" is what is refused when   *)
(* it is used: no URL, no number, out of range, no such word; "nan" is the  *)
(* number that is in no order with any other.  "on", "off" are of live, "N"  *)
(* is a coversheet; every other usable value is "set".                      *)
Writings == {"unset", "blank", "set", "bad", "nan", "on", "off", "N"}

(* Where a config file is named, and whether what is found there is a file  *)
(* that parses ("here"), is missing ("gone"), or does not parse or open.    *)
FileStates == {"unset", "here", "gone", "broken"}

(* What an operator has written when a program starts: each setting in     *)
(* each place, and where a config file was named, or lies on the search    *)
(* path.  Some settings have no argument or no variable, and a --timeout   *)
(* that is blank is stopped by argparse.                                   *)
Surroundings ==
    {s \in [written : [Places -> [Settings -> Writings]],
            named : [{"args", "env", "search"} -> FileStates]] :
        /\ s.written["args"]["live"] = "unset"
        /\ s.written["args"]["timeout"] # "blank"
        /\ \A setting \in InTheFileOnly, place \in {"args", "env"} :
               s.written[place][setting] = "unset"}

\* (variant) A named file that is missing is passed over.
FindConfigFileThatExists(s) ==
    IF s.named["args"] \in {"here", "broken"} THEN "args"
    ELSE IF s.named["env"] \in {"here", "broken"} THEN "env"
    ELSE IF s.named["search"] \in {"here", "broken"} THEN "search"
    ELSE "none"

\* find_config_file, with "none" when there is nothing to read: a file that is
\* named is the one, even if it is missing.
FindConfigFile(s) ==
    IF s.named["args"] # "unset" THEN "args"
    ELSE IF s.named["env"] # "unset" THEN "env"
    ELSE IF s.named["search"] \in {"here", "broken"} THEN "search"
    ELSE "none"

FileIsUnusable(s) ==
    FindConfigFile(s) # "none" /\ s.named[FindConfigFile(s)] # "here"

\* What is read for a setting in a place: nothing, without a config file.
Written(s, place, setting) ==
    IF place = "file" /\ FindConfigFile(s) = "none"
    THEN "unset"
    ELSE s.written[place][setting]

\* _blank_to_none
IsBlank(v) == v \in {"unset", "blank"}

\* The first place that is not blank: api_id, api_key and base_url.
FirstNotBlank(s, setting) ==
    IF ~IsBlank(Written(s, "args", setting)) THEN "args"
    ELSE IF ~IsBlank(Written(s, "env", setting)) THEN "env"
    ELSE IF ~IsBlank(Written(s, "file", setting)) THEN "file"
    ELSE "default"

FileOnly(s, setting) ==
    IF IsBlank(Written(s, "file", setting)) THEN "default" ELSE "file"

\* --state-dir arrives as a Path, which _blank_to_none does not look into.
StateDirPlace(s) ==
    IF Written(s, "args", "state_dir") # "unset"
    THEN "args"
    ELSE FirstNotBlank(s, "state_dir")

\* env.get(LETTERSTREAM_TIMEOUT, file): a variable that is there hides the
\* file, a blank one too.
TimeoutPlace(s) ==
    IF Written(s, "args", "timeout") # "unset" THEN "args"
    ELSE IF Written(s, "env", "timeout") # "unset"
         THEN IF Written(s, "env", "timeout") = "blank" THEN "default" ELSE "env"
    ELSE FileOnly(s, "timeout")

\* The same for LETTERSTREAM_LIVE; no argument is looked at.
LivePlace(s) ==
    IF Written(s, "env", "live") # "unset"
    THEN IF Written(s, "env", "live") = "blank" THEN "default" ELSE "env"
    ELSE FileOnly(s, "live")

PlaceOf(s) ==
    [setting \in Settings |->
        CASE setting \in {"api_id", "api_key", "base_url"} -> FirstNotBlank(s, setting)
          [] setting = "state_dir" -> StateDirPlace(s)
          [] setting = "timeout" -> TimeoutPlace(s)
          [] setting = "live" -> LivePlace(s)
          [] OTHER -> FileOnly(s, setting)]

\* The value a resolved setting has.
Used(s, setting) ==
    IF PlaceOf(s)[setting] = "default"
    THEN "unset"
    ELSE Written(s, PlaceOf(s)[setting], setting)

\* The first check that fails, in the order of the code.  int(nan) raises an
\* error that is none of the package's own; nan passes both other comparisons.
ConfigError(s) ==
    IF FileIsUnusable(s) THEN "ConfigError"
    ELSE IF \E c \in {"api_id", "api_key"} : PlaceOf(s)[c] = "default"
         THEN "CredentialsError"
    ELSE IF \E c \in {"base_url", "timeout", "live"} : Used(s, c) = "bad"
         THEN "ConfigError"
    ELSE IF Used(s, "ttl") = "nan" THEN "ValueError"
    ELSE IF \E c \in {"ttl", "ceiling", "mail_type"} : Used(s, c) = "bad"
         THEN "ConfigError"
    ELSE "none"

\* _as_bool: nothing written, or a blank, is False, which is the default.
IsLive(s) == Used(s, "live") = "on"

\* load_config, when it returns.
LoadConfig(s) ==
    [path |-> FindConfigFile(s), from |-> PlaceOf(s), live |-> IsLive(s),
     coversheet |-> Used(s, "coversheet")]

Configs ==
    [path : {"args", "env", "search", "none"}, from : [Settings -> Places \cup {"default"}],
     live : BOOLEAN, coversheet : Writings]
=============================================================================
