---------------------------- MODULE MCGroundTruth ----------------------------
(* An OWASP corpus, a SARD archive, two CVEfixes commits of one CVE,        *)
(* Big-Vul rows of one commit (vulnerable, fixed, vulnerable), of a fork of *)
(* it and of no repository.                                                 *)
EXTENDS BenchmarkReview, TLC

MCKind == [owasp |-> "owasp", sard |-> "sard", fixes |-> "cvefixes",
           big |-> "bigvul", forks |-> "bigvul"]
R(d, s, m, g) == [dataset |-> d, spots |-> s, mark |-> m, group |-> g, repo |-> NoRepo, fix |-> "-"]
V(d, s, m, cve, repo, fix) ==
    [dataset |-> d, spots |-> s, mark |-> m, group |-> cve, repo |-> repo, fix |-> fix]
BigRows == << {V("big1", {"a1", "b1"}, "1", "cve1", "r1", "f1")},
              {V("big1", {"a1"}, "0", "cve1", "r1", "f1")},
              {V("big1", {"a1", "b1"}, "1", "cve1", "r1", "f1")} >>
ForkRows == << {V("big2", {"a1", "b1"}, "1", "cve2", "r1", "f1")},
               {V("big3", {"a1"}, "0", "cve2", "r2", "f1")},
               {V("big4", {"a1", "b1"}, "1", "cve3", NoRepo, "f1")} >>
MCBatches ==
    [owasp |-> <<{R("owasp", {"a1"}, "true", "-"), R("owasp", {"b1"}, "false", "-")}>>,
     sard |-> <<{R("sard", {"a1", "a2"}, "flaw", "c"), R("sard", {"b1"}, "fix", "c")}>>,
     fixes |-> << {V("fix1", {"a1"}, "commit", "cve1", "r1", "f1")},
                  {V("fix2", {"a1"}, "commit", "cve1", "r1", "f2")} >>,
     big |-> BigRows, forks |-> ForkRows]
MCCorpora == DOMAIN MCKind
MCCommit == [c \in MCCorpora |-> "v1"]

MCDatasets == {"owasp", "sard", "fix1", "fix2", "big1", "big2", "big3", "big4"}
MCDiff == [f1 |-> "plain", f2 |-> "malformed"] @@ ("-" :> "plain")

F(file, class, cwes, lo, hi, conf) ==
    [file |-> file, class |-> class, cwes |-> cwes, lo |-> lo, hi |-> hi, confidence |-> conf]
MCFindings == {F("a", "x", {}, 1, 1, 1), F("a", "x", {"c1", "c2"}, 12, 0, 2),
               F("a", "x", {"c1"}, 3, 14, 3), F("a", "y", {"c1"}, 20, 0, 1), F("b", "x", {"c1"}, 0, 0, 1)}
L(file, class, cwe, lo, hi) == [file |-> file, class |-> class, cwe |-> cwe, lo |-> lo, hi |-> hi]
MCLabelAt == [a1 |-> L("a", "x", "c1", 5, 5), a2 |-> L("a", "y", "c2", 8, 9),
              b1 |-> L("b", "x", "c1", 1, 3)]
=============================================================================
