----------------------------- MODULE BlockList ------------------------------
(***************************************************************************)
(* The start of the broker command (src/cmd/broker.go) with its two        *)
(* address filters: the IPsum list (src/pkg/ipsum/ipsum.go), downloaded    *)
(* once into a file and loaded at every start, and the geo filter          *)
(* (src/pkg/geoblock/geoblock.go).  The process may be killed between any  *)
(* two operations; its files stay.                                         *)
(*                                                                         *)
(* Addresses and country codes appear as the texts the program reads, and  *)
(* the parsers of the libraries as functions on these texts: To4 maps a    *)
(* text to the IPv4 address it denotes, Country to the country the         *)
(* database has for it, Upper a country code to its trimmed upper case.    *)
(***************************************************************************)
EXTENDS Integers, Sequences

CONSTANTS
    Confs,      \* the configurations: [feed, ipsum, geo, countries]
    MinCount,   \* ipsum.DefaultMinCount
    To4,        \* net.ParseIP and IP.To4; NoIP for a text that is no IPv4 address
    NoIP,
    Country,    \* the mmdb lookup; NoCode where there is no data or no code
    Upper,      \* strings.ToUpper and strings.TrimSpace; NoCode for a blank
    NoCode,
    Absent      \* the content of a file that does not exist

VARIABLES
    conf,   \* the flags and the feed behind the URL; they do not change
    file,   \* ipsum.txt: the lines it holds, or Absent
    tmp,    \* ipsum.txt.tmp
    bp,     \* the next operation of the broker command
    row,    \* how many lines of the list the scanner has returned
    db,     \* ipFilter.ips: the count of an address, 0 for one that is not there;
            \* while the list is loaded, the map that will become it
    geo     \* geoFilter.blocked

blockVars == <<conf, file, tmp, bp, row, db, geo>>
disk == <<file, tmp>>
memory == <<row, db, geo>>

Texts == DOMAIN To4
V4 == {To4[t] : t \in Texts} \ {NoIP}

\* A feed is a sequence of lines: a comment or blank, a line with less than two
\* fields, an entry, whose count is -1 if it is no number, or one that is longer
\* than the scanner's buffer.
Kinds == {"comment", "short", "entry", "toolong"}
Lines == [kind : Kinds, addr : Texts, count : Int]

ASSUME BlockListAssumption ==
    /\ MinCount \in Nat
    /\ DOMAIN Country = Texts
    /\ \A c \in Confs : /\ c.feed \in Seq(Lines)
                        /\ c.feed # Absent
                        /\ c.ipsum \in BOOLEAN
                        /\ c.geo \in BOOLEAN
                        /\ c.countries \in Seq(DOMAIN Upper)

EmptyDB == [a \in V4 |-> 0]

BlockTypeOK ==
    /\ conf \in Confs
    /\ \A f \in {file, tmp} : f = Absent \/ \E n \in 0..Len(conf.feed) : f = SubSeq(conf.feed, 1, n)
    /\ bp \in {"down", "stat", "get", "copy", "close", "rename", "load", "geo",
               "bind", "serving"}
    /\ row \in 0..Len(conf.feed)
    /\ db \in [V4 -> Nat]
    /\ geo \subseteq {Upper[c] : c \in DOMAIN Upper} \ {NoCode}

BlockInit ==
    /\ conf \in Confs
    /\ file = Absent
    /\ tmp = Absent
    /\ bp = "down"
    /\ row = 0
    /\ db = EmptyDB
    /\ geo = {}

-----------------------------------------------------------------------------
(* Parsing and lookup.                                                     *)

\* NewDB
Threshold == IF MinCount < 1 THEN 1 ELSE MinCount

\* Mutant: only counts above the threshold.
StoresAbove(line) ==
    /\ line.kind = "entry"
    /\ To4[line.addr] # NoIP
    /\ line.count > Threshold

\* The lines that loadFromReader does not skip.
Stores(line) ==
    /\ line.kind = "entry"
    /\ To4[line.addr] # NoIP
    /\ line.count >= Threshold

LoadLine(ips, line) ==
    IF Stores(line) THEN [ips EXCEPT ![To4[line.addr]] = line.count] ELSE ips

\* The scanner stops at the next line.
ScanError == row < Len(file) /\ file[row + 1].kind = "toolong"

\* ipsum.DB.IsBlocked
IPBlocked(text) == To4[text] # NoIP /\ db[To4[text]] # 0

\* The codes of --blocked-countries that are not blank.
Codes(raw) == {Upper[raw[i]] : i \in DOMAIN raw} \ {NoCode}

\* geoblock.DB.IsBlocked
GeoBlocked(text) == Country[text] \in geo

\* Mutant: the second filter is consulted only without the first.
RefusesFirstFilter(text) ==
    IF conf.ipsum THEN IPBlocked(text) ELSE conf.geo /\ GeoBlocked(text)

\* The checks of acceptLoop before any protocol work.
Refuses(text) ==
    \/ conf.ipsum /\ IPBlocked(text)
    \/ conf.geo /\ GeoBlocked(text)

-----------------------------------------------------------------------------
(* The start of the command.                                               *)

StartBroker ==
    /\ bp = "down"
    /\ bp' = IF conf.ipsum THEN "stat" ELSE "geo"
    /\ UNCHANGED <<conf, disk, memory>>

\* os.Stat: the list is downloaded only if there is none.
StatFile ==
    /\ bp = "stat"
    /\ bp' = IF file = Absent THEN "get" ELSE "load"
    /\ UNCHANGED <<conf, disk, memory>>

\* The response is 200 OK; O_CREATE|O_TRUNC of the temporary file.
GetFeed ==
    /\ bp = "get"
    /\ tmp' = <<>>
    /\ bp' = "copy"
    /\ UNCHANGED <<conf, file, memory>>

CopyLine ==
    /\ bp = "copy"
    /\ Len(tmp) < Len(conf.feed)
    /\ tmp' = Append(tmp, conf.feed[Len(tmp) + 1])
    /\ UNCHANGED <<conf, file, bp, memory>>

CopyDone ==
    /\ bp = "copy"
    /\ Len(tmp) = Len(conf.feed)
    /\ bp' = "close"
    /\ UNCHANGED <<conf, disk, memory>>

CloseFile ==
    /\ bp = "close"
    /\ bp' = "rename"
    /\ UNCHANGED <<conf, disk, memory>>

Rename ==
    /\ bp = "rename"
    /\ file' = tmp
    /\ tmp' = Absent
    /\ bp' = "load"
    /\ UNCHANGED <<conf, memory>>

\* An iteration of loadFromReader.
ScanLine ==
    /\ bp = "load"
    /\ row < Len(file)
    /\ ~ScanError
    /\ db' = LoadLine(db, file[row + 1])
    /\ row' = row + 1
    /\ UNCHANGED <<conf, disk, bp, geo>>

LoadFromFile ==
    /\ bp = "load"
    /\ row = Len(file)
    /\ row' = 0
    /\ bp' = "geo"
    /\ UNCHANGED <<conf, disk, db, geo>>

OpenGeo ==
    /\ bp = "geo"
    /\ conf.geo => Codes(conf.countries) # {}
    /\ geo' = IF conf.geo THEN Codes(conf.countries) ELSE {}
    /\ bp' = "bind"
    /\ UNCHANGED <<conf, disk, row, db>>

\* NewServer, Server.Start
Bind ==
    /\ bp = "bind"
    /\ bp' = "serving"
    /\ UNCHANGED <<conf, disk, memory>>

StartupStep ==
    \/ StatFile
    \/ GetFeed
    \/ CopyLine
    \/ CopyDone
    \/ CloseFile
    \/ Rename
    \/ ScanLine
    \/ LoadFromFile
    \/ OpenGeo
    \/ Bind

\* The process ends and loses its memory.
ProcessEnds ==
    /\ bp' = "down"
    /\ row' = 0
    /\ db' = EmptyDB
    /\ geo' = {}

\* The feed cannot be loaded, or no country is given: the command returns.
StartupRefused ==
    /\ \/ bp = "load" /\ ScanError
       \/ bp = "geo" /\ conf.geo /\ Codes(conf.countries) = {}
    /\ ProcessEnds
    /\ UNCHANGED <<conf, disk>>

\* Mutant: the temporary file becomes the list although the copy failed.
DownloadFailsKept ==
    /\ bp \in {"copy", "close", "rename"}
    /\ file' = tmp
    /\ tmp' = Absent
    /\ ProcessEnds
    /\ UNCHANGED conf

\* An operation of DownloadToFile fails: io.Copy, Close and Rename remove the
\* temporary file.
DownloadFails ==
    /\ bp \in {"copy", "close", "rename"}
    /\ tmp' = Absent
    /\ ProcessEnds
    /\ UNCHANGED <<conf, file>>

\* The request or the creation of the temporary file, opening the list, the country
\* database or the port: nothing is to be removed.
StartupFails(op) ==
    /\ bp = op
    /\ op = "geo" => conf.geo
    /\ ProcessEnds
    /\ UNCHANGED <<conf, disk>>

\* The process is stopped or killed.
Killed ==
    /\ bp # "down"
    /\ ProcessEnds
    /\ UNCHANGED <<conf, disk>>

-----------------------------------------------------------------------------
(* What the filters are to do.                                             *)

\* The address is on the complete list with at least the threshold.
Blacklisted(text) ==
    /\ To4[text] # NoIP
    /\ \E i \in DOMAIN conf.feed :
          /\ conf.feed[i].kind = "entry"
          /\ To4[conf.feed[i].addr] = To4[text]
          /\ conf.feed[i].count >= MinCount
          /\ conf.feed[i].count > 0

FromBlockedCountry(text) ==
    /\ Country[text] # NoCode
    /\ \E i \in DOMAIN conf.countries : Upper[conf.countries[i]] = Country[text]

Forbidden(text) ==
    \/ conf.ipsum /\ Blacklisted(text)
    \/ conf.geo /\ FromBlockedCountry(text)

\* A broker that serves with the IPsum filter blocks exactly the addresses of the
\* complete list, whenever the earlier starts and downloads were cut off.
OnlyFullList ==
    bp = "serving" /\ conf.ipsum => \A t \in Texts : IPBlocked(t) <=> Blacklisted(t)

=============================================================================
