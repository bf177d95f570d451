----------------------------- MODULE XtaskProofs -----------------------------
(***************************************************************************)
(* Proofs about Xtask.  A step of a task relies on what an earlier one has *)
(* done; the plans keep them in order, and what is done stays done until   *)
(* it is needed.                                                           *)
(***************************************************************************)
EXTENDS Xtask, SequenceTheorems, TLAPS

Step == [do : What, in : Where]

\* In s, the step a comes before place i.
Before(s, i, a) == \E j \in 1 .. i - 1 : s[j] = a

\* What the order of the steps of every task has in common.
Ordered(s) ==
  /\ \A i \in 1 .. Len(s), k \in 1 .. Len(s) :
       k < i /\ s[i].do = "rm" => s[k].do \in {"rm", "check"}
  /\ \A i \in 1 .. Len(s), k \in 1 .. Len(s) :
       s[i].do = "run" /\ s[k].do = "run" => i = k
  /\ \A i \in 1 .. Len(s) :
       s[i].do = "write" \/ s[i] = Do("rm", "target") => i = Len(s)
  /\ \A i \in 1 .. Len(s) : s[i].do = "persist" => i # Len(s)

\* In a whole plan, what a step relies on comes before it.
Supplied(name, s, i) ==
  /\ \A d \in Dir : s[i] = Do("make", d) => Before(s, i, Do("cmake", d))
  /\ s[i].do = "run" => /\ Before(s, i, Do("rm", "cxx"))
                        /\ Before(s, i, Do("make", "cxx"))
  /\ s[i].do = "persist" => /\ Before(s, i, Do("make", "cxx"))
                            /\ Before(s, i, Do("run", "cxx"))
  /\ s[i].do \in {"write", "diff"} => Before(s, i, Do("persist", "cxx"))
  /\ s[i].do = "rtt" => Before(s, i, Do("make", "m3"))
  /\ s[i].do = "write" => name = "bless"
  /\ s[i].do = "rtt" => name = "run_example_app"
  /\ s[i].do # "wait"

Sound(name, s) ==
  /\ s \in Seq(Step) /\ s # << >>
  /\ Ordered(s)
  /\ \A i \in 1 .. Len(s) : Supplied(name, s, i)
  /\ name = "test" => \E i \in 1 .. Len(s) : s[i] = Do("diff", "root")
  /\ name # "none"
-----------------------------------------------------------------------------
(* The plans. *)

LEMMA DoType == \A what \in What, where \in Where : Do(what, where) \in Step
BY DEF Do, Step

LEMMA DoFields == \A what, where : Do(what, where).do = what /\ Do(what, where).in = where
BY DEF Do

LEMMA Joined ==
  ASSUME NEW s \in Seq(Step), NEW t \in Seq(Step), NEW u \in Seq(Step),
         Len(u) = Len(s) + Len(t),
         \A i \in 1 .. Len(s) : u[i] = s[i],
         \A i \in 1 .. Len(t) : u[Len(s) + i] = t[i]
  PROVE  s \o t = u
<1>1. /\ s \o t \in Seq(Step) /\ Len(s \o t) = Len(u)
      /\ \A i \in 1 .. Len(s \o t) :
           (s \o t)[i] = IF i <= Len(s) THEN s[i] ELSE t[i - Len(s)]
      BY ConcatProperties
<1>2. ASSUME NEW i \in 1 .. Len(u) PROVE (s \o t)[i] = u[i]
  <2>1. CASE i <= Len(s)
        BY <1>1, <2>1
  <2>2. CASE i > Len(s)
    <3>1. i - Len(s) \in 1 .. Len(t) /\ Len(s) + (i - Len(s)) = i
          BY <2>2
    <3>2. QED
          BY <1>1, <2>2, <3>1
  <2>3. QED
        BY <2>1, <2>2
<1>3. QED
      BY <1>1, <1>2, SeqEqual

LEMMA BlessSound == Sound("bless", BlessCxxTests)
<1> DEFINE made == <<Do("rm", "cxx"), Do("cmake", "cxx"), Do("make", "cxx")>>
           ran  == <<Do("rm", "cxx"), Do("cmake", "cxx"), Do("make", "cxx"),
                     Do("run", "cxx"), Do("persist", "cxx")>>
           s    == <<Do("rm", "cxx"), Do("cmake", "cxx"), Do("make", "cxx"),
                     Do("run", "cxx"), Do("persist", "cxx"), Do("write", "root")>>
<1>1. /\ Do("rm", "cxx") \in Step /\ Do("cmake", "cxx") \in Step
      /\ Do("make", "cxx") \in Step /\ Do("run", "cxx") \in Step
      /\ Do("persist", "cxx") \in Step /\ Do("write", "root") \in Step
      BY CoreAssumption, VersionsAssumption DEF Do, Step, What, Where, Dir
<1>2. made \in Seq(Step) /\ ran \in Seq(Step) /\ s \in Seq(Step)
      BY <1>1
<1>3. made \o Persist = ran
  <2>1. Persist \in Seq(Step)
        BY <1>1 DEF Persist
  <2>2. /\ Len(ran) = Len(made) + Len(Persist)
        /\ \A i \in 1 .. Len(made) : ran[i] = made[i]
        /\ \A i \in 1 .. Len(Persist) : ran[Len(made) + i] = Persist[i]
        BY DEF Persist
  <2> HIDE DEF made, ran
  <2>3. QED
        BY <1>2, <2>1, <2>2, Joined
<1>4. ran \o <<Do("write", "root")>> = s
  <2> DEFINE write == <<Do("write", "root")>>
  <2>1. write \in Seq(Step)
        BY <1>1
  <2>2. /\ Len(s) = Len(ran) + Len(write)
        /\ \A i \in 1 .. Len(ran) : s[i] = ran[i]
        /\ \A i \in 1 .. Len(write) : s[Len(ran) + i] = write[i]
        OBVIOUS
  <2> HIDE DEF ran, write, s
  <2>3. ran \o write = s
        BY <1>2, <2>1, <2>2, Joined
  <2>4. QED
        BY <2>3 DEF write
<1>5. BlessCxxTests = s
      BY <1>3, <1>4 DEF BlessCxxTests, BuildCxxTests
<1>6. Ordered(s)
      BY DoFields DEF Ordered
<1>7. ASSUME NEW i \in 1 .. 6 PROVE Supplied("bless", s, i)
      BY DoFields DEF Supplied, Before
<1>8. QED
      BY <1>2, <1>5, <1>6, <1>7 DEF Sound

LEMMA TestSound == Sound("test", RunTests)
<1> DEFINE made    == <<Do("rm", "cxx"), Do("cmake", "cxx"), Do("make", "cxx")>>
           checked == <<Do("rm", "cxx"), Do("cmake", "cxx"), Do("make", "cxx"),
                        Do("check", "cxx")>>
           ran     == <<Do("rm", "cxx"), Do("cmake", "cxx"), Do("make", "cxx"),
                        Do("check", "cxx"), Do("run", "cxx"), Do("persist", "cxx")>>
           s       == <<Do("rm", "cxx"), Do("cmake", "cxx"), Do("make", "cxx"),
                        Do("check", "cxx"), Do("run", "cxx"), Do("persist", "cxx"),
                        Do("diff", "root"), Do("cargo", "debug")>>
           check   == <<Do("check", "cxx")>>
           rest    == <<Do("diff", "root"), Do("cargo", "debug")>>
<1>1. /\ Do("rm", "cxx") \in Step /\ Do("cmake", "cxx") \in Step
      /\ Do("make", "cxx") \in Step /\ Do("check", "cxx") \in Step
      /\ Do("run", "cxx") \in Step /\ Do("persist", "cxx") \in Step
      /\ Do("diff", "root") \in Step /\ Do("cargo", "debug") \in Step
      BY VersionsAssumption DEF Do, Step, What, Where, Dir
<1>2. /\ made \in Seq(Step) /\ checked \in Seq(Step) /\ ran \in Seq(Step)
      /\ s \in Seq(Step) /\ check \in Seq(Step) /\ rest \in Seq(Step)
      /\ Persist \in Seq(Step)
      BY <1>1 DEF Persist
<1>3. made \o check = checked
  <2>1. /\ Len(checked) = Len(made) + Len(check)
        /\ \A i \in 1 .. Len(made) : checked[i] = made[i]
        /\ \A i \in 1 .. Len(check) : checked[Len(made) + i] = check[i]
        OBVIOUS
  <2> HIDE DEF made, checked, check
  <2>2. QED
        BY <1>2, <2>1, Joined, ZenonT(30)
<1>4. checked \o Persist = ran
  <2>1. /\ Len(ran) = Len(checked) + Len(Persist)
        /\ \A i \in 1 .. Len(checked) : ran[i] = checked[i]
        /\ \A i \in 1 .. Len(Persist) : ran[Len(checked) + i] = Persist[i]
        BY DEF Persist
  <2> HIDE DEF checked, ran
  <2>2. QED
        BY <1>2, <2>1, Joined, ZenonT(30)
<1>5. ran \o rest = s
  <2>1. /\ Len(s) = Len(ran) + Len(rest)
        /\ \A i \in 1 .. Len(ran) : s[i] = ran[i]
        /\ \A i \in 1 .. Len(rest) : s[Len(ran) + i] = rest[i]
        OBVIOUS
  <2> HIDE DEF ran, rest, s
  <2>2. QED
        BY <1>2, <2>1, Joined, ZenonT(30)
<1>6. RunTests = s
      BY <1>3, <1>4, <1>5 DEF RunTests, BuildCxxTests
<1>7. Ordered(s)
      BY DoFields DEF Ordered
<1>8. ASSUME NEW i \in 1 .. 8 PROVE Supplied("test", s, i)
      BY DoFields DEF Supplied, Before
<1>9. \E i \in 1 .. 8 : s[i] = Do("diff", "root")
  <2>1. 7 \in 1 .. 8 /\ s[7] = Do("diff", "root")
        OBVIOUS
  <2>2. QED
        BY <2>1
<1>10. QED
       BY <1>2, <1>6, <1>7, <1>8, <1>9 DEF Sound

LEMMA CleanSound == Sound("clean", Clean)
<1>1. Clean \in Seq(Step)
  <2>1. /\ Do("rm", "fw") \in Step /\ Do("rm", "cxx") \in Step
        /\ Do("rm", "target") \in Step
        BY DEF Do, Step, What, Where, Dir
  <2>2. QED
        BY <2>1 DEF Clean
<1>2. Ordered(Clean)
      BY DoFields DEF Ordered, Clean
<1>3. ASSUME NEW i \in 1 .. 3 PROVE Supplied("clean", Clean, i)
      BY DoFields DEF Supplied, Clean
<1>4. QED
      BY <1>1, <1>2, <1>3 DEF Sound, Clean

LEMMA BuildSound == ASSUME NEW p \in Profile PROVE Sound("build", <<Do("cargo", p)>>)
<1> DEFINE s == <<Do("cargo", p)>>
<1>1. s \in Seq(Step)
  <2>1. Do("cargo", p) \in Step
        BY DEF Do, Step, What, Where
  <2>2. QED
        BY <2>1
<1>2. Ordered(s)
      BY DoFields DEF Ordered
<1>3. ASSUME NEW i \in 1 .. 1 PROVE Supplied("build", s, i)
      BY DoFields DEF Supplied
<1>4. QED
      BY <1>1, <1>2, <1>3 DEF Sound

LEMMA FirmwareSound ==
  ASSUME NEW core \in Core, NEW force \in BOOLEAN, NEW withCompdb \in BOOLEAN,
         NEW dryRun \in BOOLEAN, NEW s, s = BuildFirmware(core, force, withCompdb, dryRun)
  PROVE  Sound("build_firmware", s)
<1> DEFINE rm    == When(force, <<Do("rm", core)>>)
           cmake == <<Do("cmake", core)>>
           check == When(withCompdb, <<Do("check", core)>>)
           make  == When(~dryRun, <<Do("make", core)>>)
           front == rm \o cmake
           mid   == front \o check
<1>1. /\ Do("rm", core) \in Step /\ Do("cmake", core) \in Step
      /\ Do("check", core) \in Step /\ Do("make", core) \in Step
      BY DEF Do, Step, What, Where, Dir
<1>2. /\ rm \in Seq(Step) /\ Len(rm) \in 0 .. 1
      /\ \A i \in 1 .. Len(rm) : rm[i] = Do("rm", core)
      BY <1>1 DEF When
<1>3. /\ cmake \in Seq(Step) /\ Len(cmake) = 1 /\ cmake[1] = Do("cmake", core)
      BY <1>1
<1>4. /\ check \in Seq(Step)
      /\ \A i \in 1 .. Len(check) : check[i] = Do("check", core)
      BY <1>1 DEF When
<1>5. /\ make \in Seq(Step)
      /\ \A i \in 1 .. Len(make) : make[i] = Do("make", core)
      BY <1>1 DEF When
<1>6. s = mid \o make
      BY DEF BuildFirmware
<1>7. Do("rm", core) # Do("cmake", core) /\ Do("rm", core) # Do("check", core)
      /\ Do("rm", core) # Do("make", core) /\ Do("make", core) # Do("cmake", core)
      /\ Do("make", core) # Do("check", core)
      BY DEF Do
<1> HIDE DEF rm, cmake, check, make
<1>8. /\ front \in Seq(Step) /\ Len(front) = Len(rm) + 1
      /\ \A i \in 1 .. Len(front) :
           front[i] = IF i <= Len(rm) THEN Do("rm", core) ELSE Do("cmake", core)
  <2>1. /\ front \in Seq(Step) /\ Len(front) = Len(rm) + Len(cmake)
        /\ \A i \in 1 .. Len(rm) + Len(cmake) :
             front[i] = IF i <= Len(rm) THEN rm[i] ELSE cmake[i - Len(rm)]
        BY <1>2, <1>3, ConcatProperties
  <2> HIDE DEF front
  <2>2. ASSUME NEW i \in 1 .. Len(front)
        PROVE  front[i] = IF i <= Len(rm) THEN Do("rm", core) ELSE Do("cmake", core)
        BY <1>2, <1>3, <2>1
  <2>3. QED
        BY <1>3, <2>1, <2>2
<1> HIDE DEF front
<1>9. /\ mid \in Seq(Step) /\ Len(mid) >= Len(front)
      /\ \A i \in 1 .. Len(mid) :
           mid[i] = IF i <= Len(front) THEN front[i] ELSE Do("check", core)
  <2>1. /\ mid \in Seq(Step) /\ Len(mid) = Len(front) + Len(check)
        /\ \A i \in 1 .. Len(front) + Len(check) :
             mid[i] = IF i <= Len(front) THEN front[i] ELSE check[i - Len(front)]
        BY <1>8, <1>4, ConcatProperties
  <2> HIDE DEF mid
  <2>2. ASSUME NEW i \in 1 .. Len(mid)
        PROVE  mid[i] = IF i <= Len(front) THEN front[i] ELSE Do("check", core)
        BY <1>8, <1>4, <2>1
  <2>3. QED
        BY <1>4, <1>8, <2>1, <2>2
<1> HIDE DEF mid
<1>10. /\ s \in Seq(Step) /\ Len(s) >= Len(mid)
       /\ \A i \in 1 .. Len(s) :
            s[i] = IF i <= Len(mid) THEN mid[i] ELSE Do("make", core)
  <2>1. /\ s \in Seq(Step) /\ Len(s) = Len(mid) + Len(make)
        /\ \A i \in 1 .. Len(mid) + Len(make) :
             s[i] = IF i <= Len(mid) THEN mid[i] ELSE make[i - Len(mid)]
        BY <1>9, <1>5, <1>6, ConcatProperties
  <2>2. ASSUME NEW i \in 1 .. Len(s)
        PROVE  s[i] = IF i <= Len(mid) THEN mid[i] ELSE Do("make", core)
        BY <1>9, <1>5, <2>1
  <2>3. QED
        BY <1>5, <1>9, <2>1, <2>2
<1>11. /\ \A i \in 1 .. Len(s) : s[i] \in {Do("rm", core), Do("cmake", core),
                                           Do("check", core), Do("make", core)}
       /\ \A i \in 1 .. Len(s) : s[i] = Do("rm", core) => i = 1
       BY <1>2, <1>7, <1>8, <1>9, <1>10
<1>12. ASSUME NEW i \in 1 .. Len(s), s[i] = Do("make", core)
       PROVE  Before(s, i, Do("cmake", core))
  <2>1. /\ Len(front) \in 1 .. i - 1
        /\ s[Len(front)] = Do("cmake", core)
        BY <1>2, <1>7, <1>8, <1>9, <1>10, <1>12
  <2>2. QED
        BY <2>1 DEF Before
<1>13. /\ s \in Seq(Step) /\ Len(s) > 0
       /\ \A i \in 1 .. Len(s) : s[i] \in {Do("rm", core), Do("cmake", core),
                                           Do("check", core), Do("make", core)}
       /\ \A i \in 1 .. Len(s) : s[i] = Do("rm", core) => i = 1
       /\ \A i \in 1 .. Len(s) : s[i] = Do("make", core)
            => Before(s, i, Do("cmake", core))
       BY <1>8, <1>9, <1>10, <1>11, <1>12
<1>14. Ordered(s)
  <2>1. \A i \in 1 .. Len(s) : s[i].do \in {"rm", "cmake", "check", "make"}
        BY <1>13, DoFields
  <2>2. \A i \in 1 .. Len(s) : s[i].do = "rm" => i = 1
        BY <1>13, DoFields
  <2>3. ASSUME NEW i \in 1 .. Len(s), s[i] = Do("rm", "target") PROVE FALSE
        BY <1>13, <2>3, CoreAssumption, DoFields
  <2>4. QED
        BY <2>1, <2>2, <2>3 DEF Ordered
<1>15. ASSUME NEW i \in 1 .. Len(s) PROVE Supplied("build_firmware", s, i)
  <2>1. s[i].do \in {"rm", "cmake", "check", "make"}
        BY <1>13, DoFields
  <2>2. ASSUME NEW d \in Dir, s[i] = Do("make", d)
        PROVE  Before(s, i, Do("cmake", d))
    <3>1. s[i] = Do("make", core) /\ d = core
          BY <1>13, <2>2, DoFields
    <3>2. QED
          BY <1>13, <3>1
  <2>3. QED
        BY <2>1, <2>2 DEF Supplied
<1>16. QED
      BY <1>13, <1>14, <1>15 DEF Sound

LEMMA ExampleSound == Sound("run_example_app", RunExampleApp)
<1> DEFINE front == BuildFirmware("m3", FALSE, FALSE, FALSE)
           rest  == <<Do("cargo", "debug"), Do("rtt", "m3")>>
           made  == <<Do("cmake", "m3"), Do("make", "m3")>>
           s     == <<Do("cmake", "m3"), Do("make", "m3"), Do("cargo", "debug"),
                      Do("rtt", "m3")>>
<1>1. /\ Do("cmake", "m3") \in Step /\ Do("make", "m3") \in Step
      /\ Do("cargo", "debug") \in Step /\ Do("rtt", "m3") \in Step
      BY CoreAssumption, VersionsAssumption DEF Do, Step, What, Where, Dir
<1>2. /\ rest \in Seq(Step) /\ made \in Seq(Step) /\ s \in Seq(Step)
      BY <1>1
<1>3. front = made
  <2> DEFINE cmake == <<Do("cmake", "m3")>>
             make  == <<Do("make", "m3")>>
  <2>1. cmake \in Seq(Step) /\ make \in Seq(Step)
        BY <1>1
  <2>2. front = ((<< >> \o cmake) \o << >>) \o make
        BY DEF BuildFirmware, When
  <2>3. /\ Len(made) = Len(cmake) + Len(make)
        /\ \A i \in 1 .. Len(cmake) : made[i] = cmake[i]
        /\ \A i \in 1 .. Len(make) : made[Len(cmake) + i] = make[i]
        OBVIOUS
  <2> HIDE DEF cmake, make, made
  <2>4. << >> \o cmake = cmake /\ cmake \o << >> = cmake
        BY <2>1, ConcatEmptySeq
  <2>5. cmake \o make = made
        BY <1>2, <2>1, <2>3, Joined
  <2>6. QED
        BY <2>2, <2>4, <2>5
<1>4. made \o rest = s
  <2>1. /\ Len(s) = Len(made) + Len(rest)
        /\ \A i \in 1 .. Len(made) : s[i] = made[i]
        /\ \A i \in 1 .. Len(rest) : s[Len(made) + i] = rest[i]
        OBVIOUS
  <2> HIDE DEF made, rest, s
  <2>2. QED
        BY <1>2, <2>1, Joined, ZenonT(30)
<1>5. RunExampleApp = s
      BY <1>3, <1>4 DEF RunExampleApp
<1>6. Ordered(s)
      BY DoFields DEF Ordered
<1>7. ASSUME NEW i \in 1 .. 4 PROVE Supplied("run_example_app", s, i)
      BY DoFields DEF Supplied, Before
<1>8. QED
      BY <1>2, <1>5, <1>6, <1>7 DEF Sound

LEMMA LintSound == Sound("lint", RunLint)
<1> DEFINE cargo == <<Do("cargo", "debug")>>
           front == BuildFirmware("m3", FALSE, TRUE, TRUE)
           cmake == <<Do("cmake", "m3")>>
           check == <<Do("check", "m3")>>
           made  == <<Do("cmake", "m3"), Do("check", "m3")>>
           mid   == <<Do("cargo", "debug"), Do("cmake", "m3"), Do("check", "m3")>>
           lint  == <<Do("check", "root")>>
           s     == <<Do("cargo", "debug"), Do("cmake", "m3"), Do("check", "m3"),
                      Do("check", "root")>>
<1>1. /\ Do("cmake", "m3") \in Step /\ Do("check", "m3") \in Step
      /\ Do("cargo", "debug") \in Step /\ Do("check", "root") \in Step
      BY CoreAssumption, VersionsAssumption DEF Do, Step, What, Where, Dir
<1>2. /\ cargo \in Seq(Step) /\ cmake \in Seq(Step) /\ check \in Seq(Step)
      /\ made \in Seq(Step) /\ mid \in Seq(Step) /\ lint \in Seq(Step)
      /\ s \in Seq(Step)
      BY <1>1
<1>3. front = made
  <2>1. front = ((<< >> \o cmake) \o check) \o << >>
        BY DEF BuildFirmware, When
  <2>2. /\ Len(made) = Len(cmake) + Len(check)
        /\ \A i \in 1 .. Len(cmake) : made[i] = cmake[i]
        /\ \A i \in 1 .. Len(check) : made[Len(cmake) + i] = check[i]
        OBVIOUS
  <2> HIDE DEF cmake, check, made
  <2>3. << >> \o cmake = cmake /\ made \o << >> = made
        BY <1>2, ConcatEmptySeq
  <2>4. cmake \o check = made
        BY <1>2, <2>2, Joined
  <2>5. QED
        BY <2>1, <2>3, <2>4
<1>4. cargo \o made = mid
  <2>1. /\ Len(mid) = Len(cargo) + Len(made)
        /\ \A i \in 1 .. Len(cargo) : mid[i] = cargo[i]
        /\ \A i \in 1 .. Len(made) : mid[Len(cargo) + i] = made[i]
        OBVIOUS
  <2> HIDE DEF cargo, made, mid
  <2>2. QED
        BY <1>2, <2>1, Joined, ZenonT(30)
<1>5. mid \o lint = s
  <2>1. /\ Len(s) = Len(mid) + Len(lint)
        /\ \A i \in 1 .. Len(mid) : s[i] = mid[i]
        /\ \A i \in 1 .. Len(lint) : s[Len(mid) + i] = lint[i]
        OBVIOUS
  <2> HIDE DEF lint, mid, s
  <2>2. QED
        BY <1>2, <2>1, Joined, ZenonT(30)
<1>6. RunLint = s
      BY <1>3, <1>4, <1>5 DEF RunLint
<1>7. Ordered(s)
      BY DoFields DEF Ordered
<1>8. ASSUME NEW i \in 1 .. 4 PROVE Supplied("lint", s, i)
      BY DoFields DEF Supplied, Before
<1>9. QED
      BY <1>2, <1>6, <1>7, <1>8 DEF Sound

\* The step that run_in_docker puts before a plan does not disturb it.
LEMMA DockerSound ==
  ASSUME NEW name, NEW s, Sound(name, s)
  PROVE  Sound(name, <<Do("check", "root")>> \o s)
<1> DEFINE c == <<Do("check", "root")>>
           u == c \o s
<1>1. s \in Seq(Step) /\ Len(s) > 0
      BY DEF Sound
<1>2. c \in Seq(Step)
  <2>1. Do("check", "root") \in Step
        BY DEF Do, Step, What, Where
  <2>2. QED
        BY <2>1
<1>3. /\ u \in Seq(Step) /\ Len(u) = Len(s) + 1
      /\ u[1].do = "check"
      /\ \A i \in 1 .. Len(s) : u[i + 1] = s[i]
  <2>1. /\ Len(c) = 1 /\ c[1].do = "check"
        BY DoFields
  <2> HIDE DEF c
  <2>2. /\ c \o s \in Seq(Step)
        /\ Len(c \o s) = Len(c) + Len(s)
        /\ \A i \in 1 .. Len(c) + Len(s) :
             (c \o s)[i] = IF i <= Len(c) THEN c[i] ELSE s[i - Len(c)]
        BY <1>1, <1>2, ConcatProperties
  <2>3. QED
        BY <1>1, <2>1, <2>2
<1> HIDE DEF u
<1>4. \A i \in 1 .. Len(u) : i = 1 \/ (i - 1 \in 1 .. Len(s) /\ u[i] = s[i - 1])
  <2> SUFFICES ASSUME NEW i \in 1 .. Len(u), i # 1
               PROVE  i - 1 \in 1 .. Len(s) /\ u[i] = s[i - 1]
      OBVIOUS
  <2>1. i - 1 \in 1 .. Len(s) /\ (i - 1) + 1 = i
        BY <1>1, <1>3
  <2>2. QED
        BY <1>3, <2>1
<1>5. Ordered(u)
  <2> USE DEF Ordered, Sound
  <2>1. ASSUME NEW i \in 1 .. Len(u), NEW k \in 1 .. Len(u), k < i, u[i].do = "rm"
        PROVE  u[k].do \in {"rm", "check"}
    <3>1. CASE k = 1
          BY <1>3, <3>1
    <3>2. CASE k # 1
      <4>1. /\ i - 1 \in 1 .. Len(s) /\ u[i] = s[i - 1]
            /\ k - 1 \in 1 .. Len(s) /\ u[k] = s[k - 1]
            /\ k - 1 < i - 1
            BY <1>4, <2>1, <3>2
      <4>2. s[i - 1].do = "rm"
            BY <2>1, <4>1
      <4>3. s[k - 1].do \in {"rm", "check"}
            BY <4>1, <4>2
      <4>4. QED
            BY <4>1, <4>3
    <3>3. QED
          BY <3>1, <3>2
  <2>2. ASSUME NEW i \in 1 .. Len(u), NEW k \in 1 .. Len(u),
               u[i].do = "run", u[k].do = "run"
        PROVE  i = k
    <3>1. i # 1 /\ k # 1
          BY <1>3, <2>2
    <3>2. i - 1 = k - 1
          BY <1>4, <2>2, <3>1
    <3>3. QED
          BY <3>2
  <2>3. ASSUME NEW i \in 1 .. Len(u), u[i].do = "write" \/ u[i] = Do("rm", "target")
        PROVE  i = Len(u)
    <3>1. i # 1
          BY <1>3, <2>3, DoFields
    <3>2. i - 1 = Len(s)
          BY <1>4, <2>3, <3>1
    <3>3. QED
          BY <1>1, <1>3, <3>2
  <2>4. ASSUME NEW i \in 1 .. Len(u), u[i].do = "persist"
        PROVE  i # Len(u)
    <3>1. i # 1
          BY <1>3, <2>4
    <3>2. i - 1 # Len(s)
          BY <1>4, <2>4, <3>1
    <3>3. QED
          BY <1>1, <1>3, <3>2
  <2>5. QED
        BY <2>1, <2>2, <2>3, <2>4
<1>6. ASSUME NEW i \in 1 .. Len(s), NEW a, Before(s, i, a)
      PROVE  Before(u, i + 1, a)
  <2>1. PICK j \in 1 .. i - 1 : s[j] = a
        BY <1>6 DEF Before
  <2>2. j + 1 \in 1 .. (i + 1) - 1 /\ u[j + 1] = a
        BY <1>1, <1>3, <2>1
  <2>3. QED
        BY <2>2 DEF Before
<1>7. ASSUME NEW i \in 1 .. Len(u) PROVE Supplied(name, u, i)
  <2>1. CASE i = 1
        BY <1>3, <2>1, DoFields DEF Supplied
  <2>2. CASE i # 1
    <3>1. /\ i - 1 \in 1 .. Len(s) /\ u[i] = s[i - 1]
          /\ \A a : Before(s, i - 1, a) => Before(u, i, a)
      <4>1. i - 1 \in 1 .. Len(s) /\ u[i] = s[i - 1] /\ (i - 1) + 1 = i
            BY <1>4, <2>2
      <4>2. QED
            BY <1>6, <4>1
    <3>2. Supplied(name, s, i - 1)
          BY <3>1 DEF Sound
    <3>3. QED
          BY <3>1, <3>2 DEF Supplied
  <2>3. QED
        BY <2>1, <2>2
<1>8. ASSUME NEW i \in 1 .. Len(s), s[i] = Do("diff", "root")
      PROVE  \E k \in 1 .. Len(u) : u[k] = Do("diff", "root")
  <2>1. i + 1 \in 1 .. Len(u) /\ u[i + 1] = Do("diff", "root")
        BY <1>1, <1>3, <1>8
  <2>2. QED
        BY <2>1
<1>9. QED
      BY <1>1, <1>3, <1>5, <1>7, <1>8 DEF Sound, u

LEMMA TasksAreSound ==
  \A t \in Task : Sound(t[1], t[2]) /\ Sound(InDocker(t)[1], InDocker(t)[2])
<1> SUFFICES ASSUME NEW t \in Task PROVE Sound(t[1], t[2])
    BY DockerSound DEF InDocker
<1>1. CASE \E p \in Profile : t = <<"build", <<Do("cargo", p)>> >>
      BY <1>1, BuildSound
<1>2. CASE \E c \in Core, f \in BOOLEAN, d \in BOOLEAN, n \in BOOLEAN :
             t = <<"build_firmware", BuildFirmware(c, f, d, n)>>
      BY <1>2, FirmwareSound
<1>3. QED
      BY <1>1, <1>2, BlessSound, TestSound, LintSound, CleanSound, ExampleSound
      DEF Task
-----------------------------------------------------------------------------
(* What holds between the steps. *)

Text == Seq(Nat \cup {Torn})

TreeTypes == edits \in 0 .. MaxEdits /\ commit \in 1 .. MaxCommits /\ described \in BOOLEAN

BuildTypes ==
  /\ script \in [Profile -> Nat \cup {PkgVersion, NotBuilt}]
  /\ app \in [Dir -> Elf \cup {NotBuilt}]
  /\ logs \in Text /\ expected \in Text
  /\ cleaned \in BOOLEAN

TaskTypes ==
  /\ steps \in Seq(Step) /\ (Running <=> steps # << >>)
  /\ outcome \in {"running", "passed", "failed", "mismatch"}
  /\ ~Running => task = "none"
  /\ text \in Text /\ configured \in Nat \cup {NoVersion, NotBuilt}
  /\ begin \in 0 .. edits

ProgramTypes ==
  /\ metadata \in Elf \cup {NotBuilt} /\ firmware \in Elf \cup {NotBuilt}
  /\ symbols \in Elf \cup {NotBuilt}
  /\ at \in {"metadata", "open", "symbols", "flash", "break", "session",
             "done", "failed", "mismatch"}
  /\ opts.path \in {NotBuilt} \cup Foreign
  /\ rewritten \in BOOLEAN

TypeInv == TreeTypes /\ BuildTypes /\ TaskTypes /\ ProgramTypes

Current(d)   == app[d] = NotBuilt \/ app[d].source \in begin .. edits
Agrees(v)    == described /\ cleaned => v = commit
Versioned(d) == app[d] = NotBuilt \/ Agrees(app[d].version)
Whole(t)     == \E s \in begin .. edits : t = <<s>>

\* What a step relies on is there, or an earlier step is still to do it.
Relies(i) ==
  /\ \A d \in Dir : steps[i] = Do("make", d)
       => configured # NotBuilt \/ Before(steps, i, Do("cmake", d))
  /\ steps[i].do = "run" =>
       /\ logs = << >> \/ Before(steps, i, Do("rm", "cxx"))
       /\ Current("cxx") \/ Before(steps, i, Do("make", "cxx"))
  /\ steps[i].do = "persist" =>
       /\ Versioned("cxx") \/ Before(steps, i, Do("make", "cxx"))
       /\ \/ Whole(logs) /\ \A k \in 1 .. Len(steps) : steps[k].do # "rm"
          \/ Before(steps, i, Do("run", "cxx"))
  /\ steps[i].do \in {"write", "diff"}
       => Whole(text) \/ Before(steps, i, Do("persist", "cxx"))
  /\ steps[i].do \in {"rtt", "wait"} =>
       \/ Current("m3") /\ Versioned("m3")
       \/ Before(steps, i, Do("make", "m3"))
  /\ steps[i].do = "write" => task = "bless"
  /\ steps[i].do = "rtt" => task = "run_example_app"
  /\ steps[i].do = "wait" => Len(steps) = 1

TaskInv ==
  /\ Ordered(steps)
  /\ \A i \in 1 .. Len(steps) : Relies(i)
  /\ task = "test" => \/ \E i \in 1 .. Len(steps) : steps[i] = Do("diff", "root")
                      \/ Whole(expected)

\* Where git describes the tree, no version is older than the commit, unless
\* there was one since target/ was empty.
VersionInv ==
  /\ \A p \in Profile : script[p] = NotBuilt \/ Agrees(script[p])
  /\ configured = NotBuilt \/ Agrees(configured)
  /\ outcome = "mismatch" => ~described \/ ~cleaned

Downloaded == at = "session" /\ opts.program = "rtt" /\ ~opts.attach

\* A program whose file was left alone has read the same one each time.
FilesInv ==
  /\ Idle => ~rewritten
  /\ ~rewritten /\ at \in {"open", "symbols", "flash", "break", "session"} =>
       metadata = File /\ File # NotBuilt /\ (opts.disable \/ File.version = opts.host)
  /\ ~rewritten /\ (at \in {"flash", "break"} \/ Downloaded) => symbols = File
  /\ ~rewritten /\ (at = "break" \/ Downloaded) => firmware = File

\* While a task waits for its program, no one writes the program's file.
WaitInv ==
  Doing("wait", "m3") =>
    /\ ~rewritten
    /\ ~Idle => /\ opts.program = "rtt" /\ opts.path = NotBuilt
                /\ ~opts.attach /\ ~opts.disable
                /\ Agrees(opts.host)
    /\ at = "mismatch" => ~described \/ ~cleaned

XtaskInv == TypeInv /\ TaskInv /\ VersionInv /\ FilesInv /\ WaitInv
-----------------------------------------------------------------------------
(* Types. *)

\* The first step of a task that runs, and what is left of it.
LEMMA StepsLeft ==
  ASSUME TaskTypes, Running
  PROVE  /\ Len(steps) \in Nat \ {0} /\ Head(steps) = steps[1] /\ steps[1] \in Step
         /\ Len(steps) # 1 =>
              /\ Tail(steps) \in Seq(Step) /\ Tail(steps) # << >>
              /\ Len(Tail(steps)) = Len(steps) - 1
              /\ \A i \in 1 .. Len(Tail(steps)) : Tail(steps)[i] = steps[i + 1]
<1>1. steps \in Seq(Step) /\ steps # << >>
      BY DEF TaskTypes
<1>2. Len(steps) \in Nat \ {0} /\ Head(steps) = steps[1] /\ steps[1] \in Step
      BY <1>1
<1>3. /\ Tail(steps) \in Seq(Step) /\ Len(Tail(steps)) = Len(steps) - 1
      /\ \A i \in 1 .. Len(Tail(steps)) : Tail(steps)[i] = steps[i + 1]
      BY <1>1, HeadTailProperties
<1>4. ASSUME Len(steps) # 1, Tail(steps) = << >> PROVE FALSE
  <2>1. Len(<< >>) = 0
        OBVIOUS
  <2>2. Len(Tail(steps)) = 0
        BY <1>4, <2>1, Zenon
  <2>3. Len(steps) # 1
        BY <1>4
  <2>4. Len(Tail(steps)) = Len(steps) - 1
        BY <1>3
  <2> HIDE <1>4
  <2>5. QED
        BY <1>2, <2>2, <2>3, <2>4
<1>5. QED
      BY <1>2, <1>3, <1>4

LEMMA ContinueTypes ==
  ASSUME TaskTypes, Running, Len(steps) # 1, Continue, edits' = edits,
         text' \in Text, configured' \in Nat \cup {NoVersion, NotBuilt}
  PROVE  TaskTypes'
BY StepsLeft DEF Continue, TaskTypes, Running

LEMMA FinishTypes ==
  ASSUME edits' \in Nat, NEW how \in {"passed", "failed", "mismatch"}, Finish(how)
  PROVE  TaskTypes'
<1>1. steps' \in Seq(Step) /\ text' \in Text
      BY DEF Finish, Text
<1>2. QED
      BY <1>1 DEF Finish, TaskTypes, Running

LEMMA AdvanceTypes ==
  ASSUME TaskTypes, Running, Advance, edits' = edits, edits \in Nat
  PROVE  TaskTypes'
<1>1. CASE Len(steps) = 1
      BY <1>1, FinishTypes DEF Advance
<1>2. CASE Len(steps) # 1
      BY <1>2, ContinueTypes DEF Advance, TaskTypes
<1>3. QED
      BY <1>1, <1>2

LEMMA TreeStep ==
  TreeTypes /\ [Next]_vars => TreeTypes' /\ edits' >= edits /\ described' = described
<1> SUFFICES ASSUME TreeTypes, [Next]_vars
             PROVE  TreeTypes' /\ edits' >= edits /\ described' = described
    OBVIOUS
<1> USE DEF TreeTypes
<1>1. CASE UNCHANGED tree
      BY <1>1 DEF tree
<1>2. CASE Edit
      BY <1>2, BoundsAssumption DEF Edit
<1>3. CASE Commit
      BY <1>3, BoundsAssumption DEF Commit
<1>4. CASE TaskStep
      BY <1>1, <1>4 DEF TaskStep, Remove, Configure, Make, CargoClean, CargoStep,
         Check, RunTestApp, PersistText, Diff, WriteBlessed, RunRtt, RttReturns,
         StepFails
<1>5. QED
      BY <1>1, <1>2, <1>3, <1>4 DEF Next, StartTask, StartByHand, EditDecoder, vars

LEMMA RewriteType ==
  ASSUME BuildTypes, ProgramTypes, NEW dirs, NEW file \in Elf \cup {NotBuilt},
         Rewrite(dirs, file)
  PROVE  /\ app' \in [Dir -> Elf \cup {NotBuilt}]
         /\ \A d \in Dir : app'[d] = IF d \in dirs THEN file ELSE app[d]
         /\ rewritten' \in BOOLEAN
BY DEF Rewrite, BuildTypes, ProgramTypes

LEMMA CargoType ==
  ASSUME TreeTypes, BuildTypes, NEW profile \in Profile, Cargo(profile)
  PROVE  /\ script' \in [Profile -> Nat \cup {PkgVersion, NotBuilt}]
         /\ \A p \in Profile : script'[p] =
              IF p = profile /\ script[p] = NotBuilt THEN HostVersion ELSE script[p]
BY DEF Cargo, TreeTypes, BuildTypes, HostVersion

\* The step at the front relies on nothing that is still to be done.
LEMMA FirstRelies ==
  ASSUME TaskTypes, TaskInv, NEW what, NEW where, Doing(what, where)
  PROVE  /\ Running /\ Len(steps) \in Nat \ {0} /\ steps[1] = Do(what, where)
         /\ steps[1].do = what /\ Relies(1)
         /\ \A a : ~Before(steps, 1, a)
<1>1. Running /\ steps[1] = Do(what, where) /\ Len(steps) \in Nat \ {0}
      BY StepsLeft DEF Doing
<1>2. Relies(1)
      BY <1>1 DEF TaskInv
<1>3. \A a : ~Before(steps, 1, a)
      BY DEF Before
<1>4. QED
      BY <1>1, <1>2, <1>3, DoFields

LEMMA BuildStep == TypeInv /\ TaskInv /\ [Next]_vars => BuildTypes'
<1> SUFFICES ASSUME TypeInv, TaskInv, [Next]_vars PROVE BuildTypes'
    OBVIOUS
<1> USE DEF TypeInv
<1>1. CASE UNCHANGED build
      BY <1>1 DEF BuildTypes, build, texts
<1>2. ASSUME NEW where \in Dir \cup {"fw"}, Remove(where) PROVE BuildTypes'
  <2>1. app' \in [Dir -> Elf \cup {NotBuilt}]
        BY <1>2, RewriteType DEF Remove
  <2>2. << >> \in Text
        BY DEF Text
  <2>3. QED
        BY <1>2, <2>1, <2>2 DEF Remove, BuildTypes
<1>3. ASSUME NEW d \in Dir, Make(d) PROVE BuildTypes'
  <2>1. configured \in Nat \cup {NoVersion}
    <3>1. steps[1] = Do("make", d) /\ Relies(1) /\ ~Before(steps, 1, Do("cmake", d))
          BY <1>3, FirstRelies DEF Make
    <3>2. QED
          BY <3>1 DEF Relies, TaskTypes
  <2>2. [source |-> edits, version |-> configured, has |-> Contents] \in Elf
        BY <2>1 DEF Elf, TreeTypes
  <2>3. app' \in [Dir -> Elf \cup {NotBuilt}]
        BY <1>3, <2>2, RewriteType DEF Make
  <2>4. QED
        BY <1>3, <2>3 DEF Make, BuildTypes, texts
<1>4. CASE CargoClean \/ EditDecoder
      BY <1>4 DEF CargoClean, EditDecoder, BuildTypes, texts
<1>5. ASSUME NEW p \in Profile, CargoStep(p) PROVE BuildTypes'
      BY <1>5, CargoType DEF CargoStep, BuildTypes, texts
<1>6. CASE RunTestApp
  <2>1. app["cxx"].source \in Nat
        BY <1>6 DEF RunTestApp, BuildTypes, Elf, Dir
  <2>2. Over(app["cxx"].source, logs) \in Text
    <3> DEFINE run == app["cxx"].source
    <3>1. <<run>> \in Text /\ <<run, Torn>> \in Text
          BY <2>1 DEF Text
    <3> HIDE DEF run
    <3>2. Over(run, logs) \in {<<run>>, <<run, Torn>>}
          BY Zenon DEF Over
    <3>3. Over(run, logs) \in Text
          BY <3>1, <3>2, Zenon
    <3>4. QED
          BY <3>3 DEF run
  <2>3. QED
        BY <1>6, <2>2 DEF RunTestApp, BuildTypes
<1>7. CASE PersistText
      BY <1>7, CargoType, VersionsAssumption DEF PersistText, BuildTypes, texts
<1>8. CASE WriteBlessed
      BY <1>8 DEF WriteBlessed, BuildTypes, TaskTypes
<1>9. CASE StepFails
  <2>1. CASE /\ logs' = <<Torn>> /\ Doing("run", "cxx")
             /\ UNCHANGED <<script, app, expected, cleaned, programVars>>
    <3>1. logs' \in Text
          BY <2>1 DEF Text
    <3>2. QED
          BY <2>1, <3>1 DEF BuildTypes
  <2>2. CASE /\ expected' = <<Torn>> /\ Doing("write", "root")
             /\ UNCHANGED <<script, app, logs, cleaned, programVars>>
    <3>1. expected' \in Text
          BY <2>2 DEF Text
    <3>2. QED
          BY <2>2, <3>1 DEF BuildTypes
  <2>3. CASE \E where \in Dir \cup {"fw"} :
               /\ Doing("make", where) \/ Doing("rm", where)
               /\ Rewrite(Under(where), NotBuilt)
               /\ UNCHANGED <<script, texts, cleaned>>
        BY <2>3, RewriteType DEF BuildTypes, texts
  <2>4. QED
        BY <1>1, <1>9, <2>1, <2>2, <2>3 DEF StepFails
<1>10. CASE Commit
       BY <1>10 DEF Commit, BuildTypes, texts
<1>11. QED
       BY <1>1, <1>2, <1>3, <1>4, <1>5, <1>6, <1>7, <1>8, <1>9, <1>10 DEF Next,
          TaskStep, StartTask, Configure, Check, Diff, RunRtt, RttReturns,
          StartByHand, Edit, vars

LEMMA TaskTypesStep == TypeInv /\ TaskInv /\ [Next]_vars => TaskTypes'
<1> SUFFICES ASSUME TypeInv, TaskInv, [Next]_vars PROVE TaskTypes'
    OBVIOUS
<1> USE DEF TypeInv
<1>1. edits \in Nat /\ edits' \in Nat /\ begin \in 0 .. edits
      BY TreeStep DEF TreeTypes, TaskTypes
<1>2. CASE UNCHANGED taskVars
  <2>1. edits' >= edits
        BY TreeStep
  <2>2. QED
        BY <1>1, <1>2, <2>1 DEF TaskTypes, Running, taskVars
<1>3. ASSUME NEW t \in Task, NEW u \in {t, InDocker(t)}, StartTask(u) PROVE TaskTypes'
  <2>1. u[2] \in Seq(Step) /\ u[2] # << >>
        BY TasksAreSound DEF Sound
  <2>2. QED
        BY <1>1, <1>3, <2>1 DEF StartTask, TaskTypes, Running, tree
<1>4. CASE Running /\ Advance /\ edits' = edits
      BY <1>1, <1>4, AdvanceTypes
<1>5. CASE edits' = edits /\ (\E how \in {"passed", "failed", "mismatch"} : Finish(how))
      BY <1>1, <1>5, FinishTypes
<1>6. ASSUME NEW d \in Dir, Configure(d) PROVE TaskTypes'
  <2>1. Running /\ edits' = edits
        BY <1>6 DEF Configure, Doing, tree
  <2>2. LibVersion \in Nat \cup {NoVersion, NotBuilt}
        BY DEF LibVersion, TreeTypes
  <2>3. CASE Len(steps) = 1
        BY <1>1, <1>6, <2>1, <2>3, FinishTypes DEF Configure
  <2>4. CASE Len(steps) # 1
        BY <1>6, <2>1, <2>2, <2>4, ContinueTypes DEF Configure, TaskTypes
  <2>5. QED
        BY <2>3, <2>4
<1>7. CASE PersistText
  <2>1. Running /\ edits' = edits /\ Len(steps) # 1
    <3>1. steps[1].do = "persist" /\ Running /\ Len(steps) \in Nat \ {0}
          BY <1>7, FirstRelies DEF PersistText
    <3>2. QED
          BY <1>7, <3>1 DEF PersistText, TaskInv, Ordered, tree
  <2>2. CASE text' = logs /\ Continue /\ UNCHANGED configured
        BY <2>1, <2>2, ContinueTypes DEF BuildTypes, TaskTypes
  <2>3. QED
        BY <1>5, <1>7, <2>1, <2>2 DEF PersistText
<1>8. CASE RunRtt
  <2>1. Do("wait", "m3") \in Step
        BY CoreAssumption DEF Do, Step, What, Where, Dir
  <2>2. steps' \in Seq(Step) /\ steps' # << >>
        BY <1>8, <2>1 DEF RunRtt
  <2>3. QED
        BY <1>1, <1>8, <2>2 DEF RunRtt, Doing, TaskTypes, Running, tree
<1>9. CASE RttReturns
  <2>1. at \in {"done", "failed", "mismatch"}
        BY <1>9 DEF RttReturns, Idle
  <2>2. QED
        BY <1>5, <1>9, <2>1 DEF RttReturns, tree
<1>10. CASE StepFails
       BY <1>5, <1>10 DEF StepFails, tree
<1>11. CASE Diff
       BY <1>4, <1>5, <1>11 DEF Diff, Doing, tree
<1>12. QED
       BY <1>2, <1>3, <1>4, <1>6, <1>7, <1>8, <1>9, <1>10, <1>11 DEF Next,
          TaskStep, Remove, Make, CargoClean, CargoStep, Check, RunTestApp,
          WriteBlessed, StartByHand, Edit, EditDecoder, Commit, Doing, tree, vars

LEMMA ProgramTypesStep == TypeInv /\ [Next]_vars => ProgramTypes'
<1> SUFFICES ASSUME TypeInv, [Next]_vars PROVE ProgramTypes'
    OBVIOUS
<1> USE DEF TypeInv
<1>1. CASE UNCHANGED programVars
      BY <1>1 DEF ProgramTypes, programVars, files
<1>2. ASSUME NEW dirs, NEW file \in Elf \cup {NotBuilt}, Rewrite(dirs, file)
      PROVE  ProgramTypes'
  <2>1. rewritten' \in BOOLEAN
        BY <1>2, RewriteType
  <2>2. QED
        BY <1>2, <2>1 DEF Rewrite, ProgramTypes, files
<1>3. ASSUME NEW program, NEW profile, NEW path \in {NotBuilt} \cup Foreign,
             NEW attach, NEW disable, Start(program, profile, path, attach, disable)
      PROVE  ProgramTypes'
      BY <1>3 DEF Start, ProgramTypes, files
<1>4. CASE ProgramStep
  <2>1. File \in Elf \cup {NotBuilt}
        BY ForeignAssumption, CoreAssumption DEF File, ProgramTypes, BuildTypes, Dir
  <2>2. ASSUME NEW how \in {"done", "failed", "mismatch"}, Exit(how) PROVE ProgramTypes'
        BY <2>2 DEF Exit, ProgramTypes, NoOpts
  <2>3. CASE OnlyAsked \/ End \/ Fail
        BY <2>2, <2>3 DEF OnlyAsked, End, Fail
  <2>4. CASE ReadMetadata
        BY <2>1, <2>2, <2>4 DEF ReadMetadata, Goto, ProgramTypes
  <2>5. CASE OpenProbe
        BY <2>2, <2>5 DEF OpenProbe, Goto, ProgramTypes, files
  <2>6. CASE OpenPort
        BY <2>6 DEF OpenPort, Goto, ProgramTypes, files
  <2>7. CASE ReadSymbols
        BY <2>1, <2>2, <2>7 DEF ReadSymbols, Goto, ProgramTypes
  <2>8. CASE Flash
        BY <2>1, <2>2, <2>8 DEF Flash, Goto, ProgramTypes
  <2>9. CASE RunToMain
        BY <2>2, <2>9 DEF RunToMain, Goto, ProgramTypes, files
  <2>10. QED
         BY <1>4, <2>3, <2>4, <2>5, <2>6, <2>7, <2>8, <2>9 DEF ProgramStep
<1>5. ASSUME NEW where \in Dir \cup {"fw"}, Remove(where) PROVE ProgramTypes'
      BY <1>2, <1>5 DEF Remove
<1>6. ASSUME NEW d \in Dir, Make(d) PROVE ProgramTypes'
  <2> DEFINE file == [source |-> edits, version |-> configured, has |-> Contents]
  <2>1. Rewrite({d}, file)
        BY <1>6 DEF Make
  <2> HIDE DEF file
  <2>2. QED
        BY <2>1 DEF Rewrite, ProgramTypes, files
<1>7. CASE StepFails
      BY <1>1, <1>2, <1>7 DEF StepFails
<1>8. CASE RunRtt \/ StartByHand
      BY <1>3, <1>8 DEF RunRtt, StartByHand
<1>9. QED
      BY <1>1, <1>4, <1>5, <1>6, <1>7, <1>8 DEF Next, TaskStep, StartTask, Configure,
         CargoClean, CargoStep, Check, RunTestApp, PersistText, Diff, WriteBlessed,
         RttReturns, Edit, EditDecoder, Commit, vars

LEMMA TypeStep == TypeInv /\ TaskInv /\ [Next]_vars => TypeInv'
BY TreeStep, BuildStep, TaskTypesStep, ProgramTypesStep DEF TypeInv

LEMMA TypeInit == Init => TypeInv
<1> SUFFICES ASSUME Init PROVE TypeInv
    OBVIOUS
<1>1. << >> \in Text /\ << 0 >> \in Text /\ << >> \in Seq(Step)
      BY DEF Text
<1> USE DEF Init, ProgramInit
<1>2. TreeTypes
      BY BoundsAssumption DEF TreeTypes
<1>3. BuildTypes
      BY <1>1 DEF BuildTypes
<1>4. TaskTypes
      BY <1>1 DEF TaskTypes, Running
<1>5. ProgramTypes
      BY DEF ProgramTypes, NoOpts
<1>6. QED
      BY <1>2, <1>3, <1>4, <1>5 DEF TypeInv
-----------------------------------------------------------------------------
(* What a step relies on. *)

\* What has been done stays done by a step of the kind h, and h does its own part.
Kept(h) ==
  /\ configured # NotBuilt \/ h.do = "cmake" => configured' # NotBuilt
  /\ (logs = << >> /\ h.do # "run") \/ h = Do("rm", "cxx") => logs' = << >>
  /\ Current("cxx") \/ h = Do("make", "cxx") => Current("cxx")'
  /\ Versioned("cxx") \/ h = Do("make", "cxx") => Versioned("cxx")'
  /\ (Whole(logs) /\ h.do # "rm") \/ h = Do("run", "cxx") => Whole(logs)'
  /\ Whole(text) \/ h = Do("persist", "cxx") => Whole(text)'
  /\ (Current("m3") /\ Versioned("m3")) \/ h = Do("make", "m3")
       => Current("m3")' /\ Versioned("m3")'
  /\ task = "test" /\ (Whole(expected) \/ h = Do("diff", "root")) => Whole(expected)'

LEMMA OrderedTail ==
  ASSUME TaskTypes, Running, Len(steps) # 1, Ordered(steps)
  PROVE  Ordered(Tail(steps))
<1> DEFINE s == Tail(steps)
<1>1. /\ Len(steps) \in Nat \ {0} /\ Len(s) = Len(steps) - 1
      /\ \A i \in 1 .. Len(s) : i + 1 \in 1 .. Len(steps) /\ s[i] = steps[i + 1]
      BY StepsLeft
<1> HIDE DEF s
<1>2. ASSUME NEW i \in 1 .. Len(s), NEW k \in 1 .. Len(s), k < i, s[i].do = "rm"
      PROVE  s[k].do \in {"rm", "check"}
  <2>1. /\ i + 1 \in 1 .. Len(steps) /\ k + 1 \in 1 .. Len(steps) /\ k + 1 < i + 1
        /\ s[i] = steps[i + 1] /\ s[k] = steps[k + 1]
        BY <1>1, <1>2
  <2>2. QED
        BY <1>2, <2>1 DEF Ordered
<1>3. ASSUME NEW i \in 1 .. Len(s), NEW k \in 1 .. Len(s),
             s[i].do = "run", s[k].do = "run"
      PROVE  i = k
  <2>1. i + 1 = k + 1
        BY <1>1, <1>3 DEF Ordered
  <2>2. QED
        BY <2>1
<1>4. ASSUME NEW i \in 1 .. Len(s), s[i].do = "write" \/ s[i] = Do("rm", "target")
      PROVE  i = Len(s)
  <2>1. i + 1 = Len(steps)
        BY <1>1, <1>4 DEF Ordered
  <2>2. QED
        BY <1>1, <2>1
<1>5. ASSUME NEW i \in 1 .. Len(s), s[i].do = "persist"
      PROVE  i # Len(s)
  <2>1. i + 1 # Len(steps)
        BY <1>1, <1>5 DEF Ordered
  <2>2. QED
        BY <1>1, <2>1
<1>6. QED
      BY <1>2, <1>3, <1>4, <1>5 DEF Ordered, s

LEMMA ContinueTask ==
  ASSUME TaskTypes, TaskInv, Running, Len(steps) # 1,
         steps' = Tail(steps), task' = task, Kept(steps[1])
  PROVE  TaskInv'
<1>1. /\ Len(steps) \in Nat \ {0} /\ Len(steps') = Len(steps) - 1
      /\ \A i \in 1 .. Len(steps') : i + 1 \in 1 .. Len(steps) /\ steps'[i] = steps[i + 1]
      /\ \A i \in 1 .. Len(steps) : i = 1 \/ (i - 1 \in 1 .. Len(steps')
                                              /\ steps[i] = steps'[i - 1])
  <2>1. /\ Len(steps) \in Nat \ {0} /\ Len(steps') = Len(steps) - 1
        /\ \A i \in 1 .. Len(steps') : i + 1 \in 1 .. Len(steps)
                                       /\ steps'[i] = steps[i + 1]
        BY StepsLeft
  <2>2. ASSUME NEW i \in 1 .. Len(steps), i # 1
        PROVE  i - 1 \in 1 .. Len(steps') /\ steps[i] = steps'[i - 1]
    <3>1. i - 1 \in 1 .. Len(steps') /\ (i - 1) + 1 = i
          BY <2>1, <2>2
    <3>2. QED
          BY <2>1, <3>1
  <2>3. QED
        BY <2>1, <2>2
<1>2. Ordered(steps')
      BY OrderedTail DEF TaskInv
<1>3. ASSUME NEW i \in 1 .. Len(steps'), NEW a, Before(steps, i + 1, a)
      PROVE  steps[1] = a \/ Before(steps', i, a)
  <2>1. PICK j \in 1 .. (i + 1) - 1 : steps[j] = a
        BY <1>3 DEF Before
  <2>2. CASE j = 1
        BY <2>1, <2>2
  <2>3. CASE j # 1
    <3>1. j - 1 \in 1 .. i - 1 /\ steps'[j - 1] = a
          BY <1>1, <2>1, <2>3
    <3>2. QED
          BY <3>1 DEF Before
  <2>4. QED
        BY <2>2, <2>3
<1>4. ASSUME NEW i \in 1 .. Len(steps') PROVE Relies(i)'
  <2>1. /\ i + 1 \in 1 .. Len(steps) /\ steps'[i] = steps[i + 1] /\ Relies(i + 1)
        /\ \A a : Before(steps, i + 1, a) => steps[1] = a \/ Before(steps', i, a)
        BY <1>1, <1>3 DEF TaskInv
  <2>2. ASSUME NEW d \in Dir, steps'[i] = Do("make", d)
        PROVE  configured' # NotBuilt \/ Before(steps', i, Do("cmake", d))
    <3>1. configured # NotBuilt \/ Before(steps, i + 1, Do("cmake", d))
          BY <2>1, <2>2 DEF Relies
    <3>2. QED
          BY <2>1, <3>1, DoFields DEF Kept
  <2>3. ASSUME steps'[i].do = "run"
        PROVE  /\ logs' = << >> \/ Before(steps', i, Do("rm", "cxx"))
               /\ Current("cxx")' \/ Before(steps', i, Do("make", "cxx"))
    <3>1. /\ logs = << >> \/ Before(steps, i + 1, Do("rm", "cxx"))
          /\ Current("cxx") \/ Before(steps, i + 1, Do("make", "cxx"))
          BY <2>1, <2>3 DEF Relies
    <3>2. steps[1].do # "run"
      <4>1. 1 \in 1 .. Len(steps) /\ 1 # i + 1
            BY <1>1
      <4>2. QED
            BY <2>1, <2>3, <4>1 DEF TaskInv, Ordered
    <3>3. QED
          BY <2>1, <3>1, <3>2 DEF Kept
  <2>4. ASSUME steps'[i].do = "persist"
        PROVE  /\ Versioned("cxx")' \/ Before(steps', i, Do("make", "cxx"))
               /\ \/ Whole(logs)' /\ \A k \in 1 .. Len(steps') : steps'[k].do # "rm"
                  \/ Before(steps', i, Do("run", "cxx"))
    <3>1. /\ Versioned("cxx") \/ Before(steps, i + 1, Do("make", "cxx"))
          /\ \/ Whole(logs) /\ \A k \in 1 .. Len(steps) : steps[k].do # "rm"
             \/ Before(steps, i + 1, Do("run", "cxx"))
          BY <2>1, <2>4 DEF Relies
    <3>2. CASE Whole(logs) /\ \A k \in 1 .. Len(steps) : steps[k].do # "rm"
      <4>1. Whole(logs)'
            BY <1>1, <3>2 DEF Kept
      <4>2. QED
            BY <1>1, <2>1, <3>1, <3>2, <4>1 DEF Kept
    <3>3. CASE steps[1] = Do("run", "cxx")
      <4>1. Whole(logs)'
            BY <3>3 DEF Kept
      <4>2. ASSUME NEW k \in 1 .. Len(steps'), steps'[k].do = "rm" PROVE FALSE
        <5>1. /\ 1 \in 1 .. Len(steps) /\ k + 1 \in 1 .. Len(steps) /\ 1 < k + 1
              /\ steps[k + 1].do = "rm"
              BY <1>1, <4>2
        <5>2. steps[1].do \in {"rm", "check"}
              BY <5>1 DEF TaskInv, Ordered
        <5>3. QED
              BY <3>3, <5>2, DoFields
      <4>3. QED
            BY <2>1, <3>1, <4>1, <4>2 DEF Kept
    <3>4. QED
          BY <2>1, <3>1, <3>2, <3>3 DEF Kept
  <2>5. ASSUME steps'[i].do \in {"write", "diff"}
        PROVE  Whole(text)' \/ Before(steps', i, Do("persist", "cxx"))
        BY <2>1, <2>5 DEF Relies, Kept
  <2>6. ASSUME steps'[i].do \in {"rtt", "wait"}
        PROVE  \/ Current("m3")' /\ Versioned("m3")'
               \/ Before(steps', i, Do("make", "m3"))
        BY <2>1, <2>6 DEF Relies, Kept
  <2>7. /\ steps'[i].do = "write" => task' = "bless"
        /\ steps'[i].do = "rtt" => task' = "run_example_app"
        /\ steps'[i].do # "wait"
        BY <1>1, <2>1 DEF Relies
  <2>8. QED
        BY <2>2, <2>3, <2>4, <2>5, <2>6, <2>7 DEF Relies
<1>5. task = "test" => \/ \E i \in 1 .. Len(steps') : steps'[i] = Do("diff", "root")
                       \/ Whole(expected)'
      BY <1>1 DEF TaskInv, Kept
<1>6. QED
      BY <1>2, <1>4, <1>5 DEF TaskInv

\* What the others do, and the steps of a program, take nothing from a task.
LEMMA StillTask ==
  ASSUME TreeTypes, TaskTypes, TaskInv, edits' \in Nat, edits' >= edits,
         UNCHANGED <<described, app, texts, task, steps, text, configured, begin>>,
         cleaned' => cleaned /\ commit' = commit
  PROVE  TaskInv'
<1>1. /\ Current("cxx") => Current("cxx")'
      /\ Current("m3") => Current("m3")'
      BY DEF Current, TreeTypes, TaskTypes
<1>2. /\ Versioned("cxx") => Versioned("cxx")'
      /\ Versioned("m3") => Versioned("m3")'
      BY DEF Versioned, Agrees
<1>3. /\ Whole(logs) => Whole(logs)'
      /\ Whole(text) => Whole(text)'
      /\ Whole(expected) => Whole(expected)'
      BY DEF Whole, TreeTypes, TaskTypes, texts
<1>4. ASSUME NEW i \in 1 .. Len(steps), Relies(i) PROVE Relies(i)'
      BY <1>1, <1>2, <1>3, <1>4 DEF Relies, texts
<1>5. QED
      BY <1>3, <1>4 DEF TaskInv

\* A new task has it all before it; one that has ended relies on nothing.
LEMMA StartTaskInv ==
  ASSUME NEW name, NEW s, Sound(name, s), task' = name, steps' = s
  PROVE  TaskInv'
<1>1. ASSUME NEW i \in 1 .. Len(s), Supplied(name, s, i) PROVE Relies(i)'
      BY <1>1 DEF Supplied, Relies
<1>2. QED
      BY <1>1 DEF Sound, TaskInv

LEMMA FinishTaskInv == ASSUME NEW how, Finish(how) PROVE TaskInv'
<1>1. Len(steps') = 0
      BY DEF Finish
<1>2. task' # "test"
      BY DEF Finish
<1>3. QED
      BY <1>1, <1>2 DEF TaskInv, Ordered

LEMMA AdvanceTask ==
  ASSUME TypeInv, TaskInv, NEW what, NEW where, Doing(what, where), Advance,
         Len(steps) # 1 => Kept(Do(what, where))
  PROVE  TaskInv'
<1>1. Running /\ steps[1] = Do(what, where)
      BY FirstRelies DEF TypeInv
<1>2. CASE Len(steps) = 1
      BY <1>2, FinishTaskInv DEF Advance
<1>3. CASE Len(steps) # 1
      BY <1>1, <1>3, ContinueTask DEF Advance, Continue, TypeInv
<1>4. QED
      BY <1>2, <1>3

LEMMA MakeKeeps ==
  ASSUME TypeInv, TaskInv, VersionInv, NEW d \in Dir, Make(d),
         UNCHANGED <<task, text, configured, begin>>
  PROVE  Kept(Do("make", d))
<1> USE DEF TypeInv
<1> DEFINE file == [source |-> edits, version |-> configured, has |-> Contents]
<1>1. configured # NotBuilt /\ Agrees(configured)
  <2>1. Relies(1) /\ steps[1] = Do("make", d) /\ ~Before(steps, 1, Do("cmake", d))
        BY FirstRelies DEF Make
  <2>2. configured # NotBuilt
        BY <2>1 DEF Relies
  <2>3. QED
        BY <2>2 DEF VersionInv
<1>2. file.source = edits /\ file.version = configured
      OBVIOUS
<1>3. app' = [e \in Dir |-> IF e \in {d} THEN file ELSE app[e]]
      BY DEF Make, Rewrite
<1>4. UNCHANGED <<edits, described, commit, logs, expected, cleaned>>
      BY DEF Make, tree, texts
<1>5. edits \in begin .. edits
      BY DEF TreeTypes, TaskTypes
<1> HIDE DEF file
<1>6. ASSUME NEW e \in Dir, Current(e) \/ e = d PROVE Current(e)'
      BY <1>2, <1>3, <1>4, <1>5, <1>6 DEF Current
<1>7. ASSUME NEW e \in Dir, Versioned(e) \/ e = d PROVE Versioned(e)'
      BY <1>1, <1>2, <1>3, <1>4, <1>7 DEF Versioned, Agrees
<1>8. "cxx" \in Dir /\ "m3" \in Dir
      BY CoreAssumption DEF Dir
<1>9. QED
      BY <1>4, <1>6, <1>7, <1>8, DoFields DEF Kept, Whole

LEMMA TaskInvStep == TypeInv /\ TaskInv /\ VersionInv /\ [Next]_vars => TaskInv'
<1> SUFFICES ASSUME TypeInv, TaskInv, VersionInv, [Next]_vars PROVE TaskInv'
    OBVIOUS
<1> USE DEF TypeInv
<1>1. ASSUME NEW where \in Dir \cup {"fw"}, Remove(where) PROVE TaskInv'
  <2> DEFINE h == Do("rm", where)
  <2>1. ASSUME Len(steps) # 1 PROVE Kept(h)
    <3>1. UNCHANGED <<edits, described, commit, expected, cleaned, task, text,
                      configured, begin>>
          BY <1>1, <2>1 DEF Remove, Advance, Continue, tree
    <3>2. \A e \in Dir : app'[e] \in {app[e], NotBuilt}
          BY <1>1, RewriteType DEF Remove
    <3>3. "cxx" \in Dir /\ "m3" \in Dir
          BY CoreAssumption DEF Dir
    <3>4. \A e \in Dir : (Current(e) => Current(e)') /\ (Versioned(e) => Versioned(e)')
          BY <3>1, <3>2 DEF Current, Versioned, Agrees
    <3>5. /\ logs = << >> \/ where = "cxx" => logs' = << >>
          BY <1>1 DEF Remove
    <3>6. h.do = "rm" /\ (h = Do("rm", "cxx") => where = "cxx")
          BY DoFields
    <3>7. h.do # "cmake" /\ h.do # "run" /\ h # Do("make", "cxx") /\ h # Do("make", "m3")
          /\ h # Do("run", "cxx") /\ h # Do("persist", "cxx") /\ h # Do("diff", "root")
          BY DoFields
    <3> HIDE DEF h
    <3>8. QED
          BY <3>1, <3>3, <3>4, <3>5, <3>6, <3>7 DEF Kept, Whole
  <2>2. QED
        BY <1>1, <2>1, AdvanceTask DEF Remove
<1>2. ASSUME NEW d \in Dir, Configure(d) PROVE TaskInv'
  <2>1. Running /\ steps[1] = Do("cmake", d)
        BY <1>2, FirstRelies DEF Configure
  <2>2. CASE Len(steps) = 1
        BY <1>2, <2>2, FinishTaskInv DEF Configure
  <2>3. CASE Len(steps) # 1
    <3>1. UNCHANGED <<edits, described, commit, app, logs, expected, cleaned, task,
                      text, begin>> /\ configured' = LibVersion
          BY <1>2, <2>3 DEF Configure, Continue, tree, build, texts
    <3>2. LibVersion # NotBuilt
          BY VersionsAssumption DEF LibVersion, TreeTypes
    <3>3. Kept(Do("cmake", d))
          BY <3>1, <3>2, DoFields DEF Kept, Current, Versioned, Agrees, Whole
    <3>4. QED
          BY <1>2, <2>1, <2>3, <3>3, ContinueTask DEF Configure, Continue
  <2>4. QED
        BY <2>2, <2>3
<1>3. ASSUME NEW d \in Dir, Make(d) PROVE TaskInv'
  <2>1. ASSUME Len(steps) # 1 PROVE Kept(Do("make", d))
        BY <1>3, <2>1, MakeKeeps DEF Make, Advance, Continue
  <2>2. QED
        BY <1>3, <2>1, AdvanceTask DEF Make
<1>4. CASE CargoClean
  <2>1. Len(steps) = 1
    <3>1. steps[1] = Do("rm", "target") /\ 1 \in 1 .. Len(steps)
          BY <1>4, FirstRelies DEF CargoClean
    <3>2. Ordered(steps)
          BY DEF TaskInv
    <3>3. QED
          BY <3>1, <3>2 DEF Ordered
  <2>2. QED
        BY <1>4, <2>1, FinishTaskInv DEF CargoClean, Advance
<1>5. ASSUME NEW what \in {"cargo", "check"}, NEW where, Doing(what, where), Advance,
             UNCHANGED <<tree, app, texts, cleaned>>
      PROVE  TaskInv'
  <2>1. ASSUME Len(steps) # 1 PROVE Kept(Do(what, where))
        BY <1>5, <2>1, DoFields DEF Advance, Continue, Kept, Current, Versioned,
           Agrees, Whole, tree, texts
  <2>2. QED
        BY <1>5, <2>1, AdvanceTask
<1>6. CASE RunTestApp
  <2>1. ASSUME Len(steps) # 1 PROVE Kept(Do("run", "cxx"))
    <3>1. UNCHANGED <<edits, described, commit, app, expected, cleaned, task, text,
                      configured, begin>>
          BY <1>6, <2>1 DEF RunTestApp, Advance, Continue, tree
    <3>2. logs = << >> /\ Current("cxx")
          BY <1>6, FirstRelies DEF RunTestApp, Relies
    <3>3. logs' = <<app["cxx"].source>> /\ app["cxx"].source \in begin .. edits
          BY <1>6, <3>2 DEF RunTestApp, Current, Over
    <3>4. Whole(logs)'
          BY <3>1, <3>3 DEF Whole
    <3>5. QED
          BY <3>1, <3>4, DoFields DEF Kept, Current, Versioned, Agrees, Whole
  <2>2. QED
        BY <1>6, <2>1, AdvanceTask DEF RunTestApp
<1>7. CASE PersistText
  <2>1. CASE text' = logs /\ Continue /\ UNCHANGED configured
    <3>1. UNCHANGED <<edits, described, commit, app, logs, expected, cleaned, task,
                      configured, begin>>
          BY <1>7, <2>1 DEF PersistText, Continue, tree, texts
    <3>2. Running /\ steps[1] = Do("persist", "cxx") /\ Len(steps) # 1 /\ Whole(logs)
      <4>1. /\ Running /\ steps[1] = Do("persist", "cxx") /\ Len(steps) \in Nat \ {0}
            /\ steps[1].do = "persist" /\ Relies(1) /\ \A a : ~Before(steps, 1, a)
            BY <1>7, FirstRelies DEF PersistText
      <4>2. QED
            BY <4>1 DEF TaskInv, Ordered, Relies
    <3>3. Kept(Do("persist", "cxx"))
          BY <2>1, <3>1, <3>2, DoFields DEF Kept, Current, Versioned, Agrees, Whole
    <3>4. QED
          BY <2>1, <3>2, <3>3, ContinueTask DEF Continue
  <2>2. QED
        BY <1>7, <2>1, FinishTaskInv DEF PersistText
<1>8. CASE Diff
  <2>1. CASE text = expected
    <3>1. ASSUME Len(steps) # 1 PROVE Kept(Do("diff", "root"))
      <4>1. UNCHANGED <<edits, described, commit, app, logs, expected, cleaned, task,
                        text, configured, begin>>
            BY <1>8, <2>1, <3>1 DEF Diff, Advance, Continue, tree, build, texts
      <4>2. Whole(text)
            BY <1>8, FirstRelies DEF Diff, Relies
      <4>3. QED
            BY <2>1, <4>1, <4>2, DoFields DEF Kept, Current, Versioned, Agrees, Whole
    <3>2. QED
          BY <1>8, <2>1, <3>1, AdvanceTask DEF Diff
  <2>2. CASE text # expected
        BY <1>8, <2>2, FinishTaskInv DEF Diff
  <2>3. QED
        BY <2>1, <2>2
<1>9. CASE WriteBlessed
  <2>1. Len(steps) = 1
    <3>1. steps[1].do = "write" /\ 1 \in 1 .. Len(steps)
          BY <1>9, FirstRelies DEF WriteBlessed
    <3>2. Ordered(steps)
          BY DEF TaskInv
    <3>3. QED
          BY <3>1, <3>2 DEF Ordered
  <2>2. QED
        BY <1>9, <2>1, FinishTaskInv DEF WriteBlessed, Advance
<1>10. CASE RunRtt
  <2>1. /\ Relies(1) /\ steps[1].do = "rtt" /\ ~Before(steps, 1, Do("make", "m3"))
        BY <1>10, FirstRelies DEF RunRtt
  <2>2. Current("m3") /\ Versioned("m3") /\ task = "run_example_app"
        BY <2>1 DEF Relies
  <2>3. /\ UNCHANGED <<edits, described, commit, app, cleaned, task, begin>>
        /\ Len(steps') = 1 /\ steps'[1] = Do("wait", "m3")
        BY <1>10 DEF RunRtt, tree, build
  <2>4. Ordered(steps')
        BY <2>3, DoFields DEF Ordered
  <2>5. Relies(1)'
        BY <2>2, <2>3, DoFields DEF Relies, Current, Versioned, Agrees
  <2>6. QED
        BY <2>2, <2>3, <2>4, <2>5 DEF TaskInv
<1>11. CASE RttReturns \/ StepFails
       BY <1>11, FinishTaskInv DEF RttReturns, StepFails
<1>12. ASSUME NEW t \in Task, NEW u \in {t, InDocker(t)}, StartTask(u) PROVE TaskInv'
  <2>1. Sound(u[1], u[2])
        BY TasksAreSound
  <2>2. QED
        BY <1>12, <2>1, StartTaskInv DEF StartTask
<1>13. CASE Commit
       BY <1>13, StillTask DEF Commit, TreeTypes, taskVars
<1>14. CASE Edit
       BY <1>14, StillTask DEF Edit, TreeTypes, taskVars, build
<1>15. CASE UNCHANGED <<tree, app, texts, cleaned, taskVars>>
       BY <1>15, StillTask DEF tree, TreeTypes, taskVars
<1>16. QED
       BY <1>1, <1>2, <1>3, <1>4, <1>5, <1>6, <1>7, <1>8, <1>9, <1>10, <1>11, <1>12,
          <1>13, <1>14, <1>15 DEF Next, TaskStep, CargoStep, Check, EditDecoder,
          StartByHand, build, vars
-----------------------------------------------------------------------------
(* Versions. *)

LEMMA VersionKept ==
  ASSUME TypeInv, VersionInv, UNCHANGED described,
         cleaned' => cleaned /\ commit' = commit,
         \A p \in Profile : script'[p] \in {script[p], NotBuilt, HostVersion},
         configured' \in {configured, NotBuilt, LibVersion},
         outcome' = "mismatch" => outcome = "mismatch" \/ ~described \/ ~cleaned
  PROVE  VersionInv'
<1>1. \A v : Agrees(v) => Agrees(v)'
      BY DEF Agrees
<1>2. Agrees(HostVersion)' /\ Agrees(LibVersion)'
      BY DEF Agrees, HostVersion, LibVersion
<1>3. ASSUME NEW v, v \in {HostVersion, LibVersion} PROVE described /\ cleaned => v = commit
      BY <1>3 DEF HostVersion, LibVersion
<1>4. ASSUME NEW p \in Profile PROVE script'[p] = NotBuilt \/ Agrees(script[p])'
      BY <1>3 DEF VersionInv, Agrees
<1>5. configured' = NotBuilt \/ Agrees(configured)'
      BY <1>3 DEF VersionInv, Agrees
<1>6. outcome' = "mismatch" => ~described' \/ ~cleaned'
      BY DEF VersionInv
<1>7. QED
      BY <1>4, <1>5, <1>6 DEF VersionInv

LEMMA VersionStep ==
  TypeInv /\ TaskInv /\ VersionInv /\ WaitInv /\ [Next]_vars => VersionInv'
<1> SUFFICES ASSUME TypeInv, TaskInv, VersionInv, WaitInv, [Next]_vars PROVE VersionInv'
    OBVIOUS
<1> USE DEF TypeInv
<1>1. described' = described
      BY TreeStep
<1>2. CASE CargoClean
  <2>1. Len(steps) = 1
    <3>1. steps[1] = Do("rm", "target") /\ 1 \in 1 .. Len(steps)
          BY <1>2, FirstRelies DEF CargoClean
    <3>2. Ordered(steps)
          BY DEF TaskInv
    <3>3. QED
          BY <3>1, <3>2 DEF Ordered
  <2>2. QED
        BY <1>2, <2>1 DEF CargoClean, Advance, Finish, VersionInv
<1>3. ASSUME NEW p \in Profile, CargoStep(p) PROVE VersionInv'
  <2>1. \A q \in Profile : script'[q] \in {script[q], HostVersion}
        BY <1>3, CargoType DEF CargoStep
  <2>2. /\ UNCHANGED <<commit, cleaned>> /\ configured' \in {configured, NotBuilt}
        /\ outcome' = outcome \/ outcome' = "passed"
        BY <1>3 DEF CargoStep, Advance, Continue, Finish, tree
  <2>3. QED
        BY <1>1, <2>1, <2>2, VersionKept
<1>4. CASE PersistText
  <2>1. \A q \in Profile : script'[q] \in {script[q], HostVersion}
        BY <1>4, CargoType, VersionsAssumption DEF PersistText
  <2>2. /\ UNCHANGED <<commit, cleaned>> /\ configured' \in {configured, NotBuilt}
        BY <1>4 DEF PersistText, Continue, Finish, tree
  <2>3. ASSUME outcome' = "mismatch"
        PROVE  outcome = "mismatch" \/ ~described \/ ~cleaned
    <3>1. CASE FromElfFile(app["cxx"], FALSE, script'["debug"]) = "Mismatched"
      <4>1. app["cxx"] # NotBuilt /\ app["cxx"].version # script'["debug"]
            BY <3>1 DEF FromElfFile
      <4>2. Versioned("cxx")
        <5>1. Relies(1) /\ steps[1].do = "persist" /\ \A a : ~Before(steps, 1, a)
              BY <1>4, FirstRelies DEF PersistText
        <5>2. QED
              BY <5>1 DEF Relies
      <4>3. described /\ cleaned => script'["debug"] = commit
        <5>1. script'["debug"] = IF script["debug"] = NotBuilt THEN HostVersion
                                 ELSE script["debug"]
              BY <1>4, CargoType, VersionsAssumption DEF PersistText
        <5>2. script["debug"] = NotBuilt \/ Agrees(script["debug"])
              BY VersionsAssumption DEF VersionInv
        <5>3. QED
              BY <5>1, <5>2 DEF Agrees, HostVersion
      <4>4. QED
            BY <4>1, <4>2, <4>3 DEF Versioned, Agrees
    <3>2. CASE FromElfFile(app["cxx"], FALSE, script'["debug"]) # "Mismatched"
          BY <1>4, <2>3, <3>2 DEF PersistText, Continue, Finish
    <3>3. QED
          BY <3>1, <3>2
  <2>4. QED
        BY <1>1, <2>1, <2>2, <2>3, VersionKept
<1>5. CASE RttReturns
  <2>1. UNCHANGED <<commit, cleaned, script>> /\ configured' = NotBuilt
        BY <1>5 DEF RttReturns, Finish, tree, build
  <2>2. outcome' = "mismatch" => ~described \/ ~cleaned
        BY <1>5 DEF RttReturns, Finish, Idle, WaitInv
  <2>3. QED
        BY <1>1, <2>1, <2>2, VersionKept
<1>6. CASE Commit
  <2>1. ~cleaned' /\ UNCHANGED <<script, configured, outcome>>
        BY <1>6 DEF Commit, taskVars
  <2>2. QED
        BY <1>1, <2>1, VersionKept DEF VersionInv
<1>7. CASE EditDecoder
  <2>1. /\ \A p \in Profile : script'[p] = NotBuilt
        /\ UNCHANGED <<commit, cleaned, configured, outcome>>
        BY <1>7 DEF EditDecoder, tree, taskVars
  <2>2. QED
        BY <1>1, <2>1, VersionKept
<1>8. ASSUME NEW d \in Dir, Configure(d) PROVE VersionInv'
  <2>1. /\ UNCHANGED <<commit, cleaned, script>> /\ configured' \in {NotBuilt, LibVersion}
        /\ outcome' = outcome \/ outcome' = "passed"
        BY <1>8 DEF Configure, Continue, Finish, tree, build
  <2>2. QED
        BY <1>1, <2>1, VersionKept
<1>9. CASE /\ UNCHANGED <<commit, cleaned, script>>
           /\ configured' \in {configured, NotBuilt}
           /\ outcome' = outcome \/ outcome' # "mismatch"
      BY <1>1, <1>9, VersionKept
<1>10. CASE Advance /\ UNCHANGED <<commit, cleaned, script>>
       BY <1>9, <1>10 DEF Advance, Continue, Finish
<1>11. CASE Diff \/ StepFails
  <2>1. CASE Diff
        BY <1>9, <1>10, <2>1 DEF Diff, Finish, tree, build
  <2>2. CASE StepFails
        BY <1>9, <2>2 DEF StepFails, Finish, tree, build
  <2>3. QED
        BY <1>11, <2>1, <2>2
<1>12. CASE UNCHANGED <<commit, cleaned, script, configured, outcome>>
       BY <1>9, <1>12
<1>13. ASSUME NEW t, StartTask(t) PROVE VersionInv'
       BY <1>9, <1>13 DEF StartTask, tree, build
<1>14. QED
  <2>1. CASE TaskStep
        BY <1>2, <1>3, <1>4, <1>5, <1>8, <1>10, <1>11, <1>12, <2>1 DEF TaskStep, Remove,
           Make, Check, RunTestApp, WriteBlessed, RunRtt, tree, build
  <2>2. CASE ProgramStep /\ UNCHANGED <<tree, build, taskVars>>
        BY <1>12, <2>2 DEF tree, build, taskVars
  <2>3. CASE StartByHand \/ Edit \/ UNCHANGED vars
        BY <1>12, <2>3 DEF StartByHand, Edit, tree, build, taskVars, vars
  <2>4. QED
        BY <1>6, <1>7, <1>13, <2>1, <2>2, <2>3 DEF Next
-----------------------------------------------------------------------------
(* The program's files. *)

LEMMA RewriteFiles ==
  ASSUME TypeInv, FilesInv, NEW dirs, NEW file, Rewrite(dirs, file)
  PROVE  FilesInv'
<1>1. UNCHANGED <<at, opts, metadata, firmware, symbols>>
      BY DEF Rewrite, files
<1>2. ~rewritten' => ~rewritten /\ (Idle \/ app'["m3"] = app["m3"])
      BY DEF Rewrite, TypeInv, ProgramTypes
<1>3. Idle' <=> Idle
      BY <1>1 DEF Idle
<1>4. Idle => ~rewritten'
      BY DEF Rewrite, FilesInv, TypeInv, ProgramTypes
<1>5. Idle => at \notin {"open", "symbols", "flash", "break", "session"}
      BY DEF Idle
<1>6. CASE rewritten'
      BY <1>3, <1>4, <1>6 DEF FilesInv
<1>7. CASE ~rewritten' /\ Idle
      BY <1>1, <1>3, <1>5, <1>7 DEF FilesInv, Downloaded
<1>8. CASE ~rewritten' /\ ~Idle
  <2>1. ~rewritten /\ File' = File /\ (Downloaded' <=> Downloaded)
        BY <1>1, <1>2, <1>8 DEF File, Downloaded
  <2>2. QED
        BY <1>1, <1>3, <1>8, <2>1 DEF FilesInv
<1>9. QED
      BY <1>6, <1>7, <1>8

LEMMA ProgramFiles ==
  ASSUME TypeInv, FilesInv, ProgramStep, UNCHANGED app
  PROVE  FilesInv'
<1>1. ASSUME NEW how \in {"done", "failed", "mismatch"}, Exit(how) PROVE FilesInv'
      BY <1>1 DEF Exit, FilesInv, Idle, Downloaded
<1>2. CASE OnlyAsked \/ End \/ Fail
      BY <1>1, <1>2 DEF OnlyAsked, End, Fail
<1>3. CASE ReadMetadata
  <2>1. CASE metadata' = File /\ Goto("open") /\ UNCHANGED <<firmware, symbols>>
             /\ FromElfFile(File, opts.disable, opts.host) = "Ok"
    <3>1. File # NotBuilt /\ (opts.disable \/ File.version = opts.host)
          BY <2>1 DEF FromElfFile
    <3>2. File' = File /\ opts' = opts /\ at' = "open" /\ rewritten' = rewritten
          BY <2>1 DEF Goto, File
    <3>3. QED
          BY <2>1, <3>1, <3>2 DEF FilesInv, Idle, Downloaded
  <2>2. QED
        BY <1>1, <1>3, <2>1 DEF ReadMetadata
<1>4. CASE OpenProbe
  <2>1. CASE at = "open" /\ Goto("symbols") /\ UNCHANGED files
        BY <2>1 DEF Goto, File, files, FilesInv, Idle, Downloaded
  <2>2. QED
        BY <1>1, <1>4, <2>1 DEF OpenProbe
<1>5. CASE OpenPort
      BY <1>5 DEF OpenPort, Goto, File, files, FilesInv, Idle, Downloaded
<1>6. CASE ReadSymbols
  <2>1. CASE /\ at = "symbols" /\ symbols' = File
             /\ Goto(IF opts.attach THEN "session" ELSE "flash")
             /\ UNCHANGED <<metadata, firmware>>
        BY <2>1 DEF Goto, File, FilesInv, Idle, Downloaded
  <2>2. QED
        BY <1>1, <1>6, <2>1 DEF ReadSymbols
<1>7. CASE Flash
  <2>1. CASE /\ at = "flash" /\ firmware' = File /\ Goto("break")
             /\ UNCHANGED <<metadata, symbols>>
        BY <2>1 DEF Goto, File, FilesInv, Idle, Downloaded
  <2>2. QED
        BY <1>1, <1>7, <2>1 DEF Flash
<1>8. CASE RunToMain
  <2>1. CASE at = "break" /\ Goto("session") /\ UNCHANGED files
        BY <2>1 DEF Goto, File, files, FilesInv, Idle, Downloaded
  <2>2. QED
        BY <1>1, <1>8, <2>1 DEF RunToMain
<1>9. QED
      BY <1>2, <1>3, <1>4, <1>5, <1>6, <1>7, <1>8 DEF ProgramStep

LEMMA FilesStep == TypeInv /\ FilesInv /\ [Next]_vars => FilesInv'
<1> SUFFICES ASSUME TypeInv, FilesInv, [Next]_vars PROVE FilesInv'
    OBVIOUS
<1>1. CASE UNCHANGED <<app, programVars>>
      BY <1>1 DEF programVars, files, FilesInv, Idle, Downloaded, File
<1>2. ASSUME NEW dirs, NEW file, Rewrite(dirs, file) PROVE FilesInv'
      BY <1>2, RewriteFiles
<1>3. ASSUME NEW program, NEW profile, NEW path, NEW attach, NEW disable,
             Start(program, profile, path, attach, disable)
      PROVE  FilesInv'
      BY <1>3 DEF Start, FilesInv, Idle, Downloaded
<1>4. CASE ProgramStep /\ UNCHANGED <<tree, build, taskVars>>
      BY <1>4, ProgramFiles DEF build
<1>5. CASE TaskStep
  <2>1. CASE StepFails
        BY <1>1, <1>2, <2>1 DEF StepFails, build
  <2>2. CASE \E where \in Dir \cup {"fw"} : Remove(where)
        BY <1>2, <2>2 DEF Remove
  <2>3. CASE \E d \in Dir : Make(d)
        BY <1>2, <2>3 DEF Make
  <2>4. CASE RunRtt
        BY <1>3, <2>4 DEF RunRtt
  <2>5. QED
        BY <1>1, <1>5, <2>1, <2>2, <2>3, <2>4 DEF TaskStep, Configure, CargoClean,
           CargoStep, Check, RunTestApp, PersistText, Diff, WriteBlessed, RttReturns,
           build
<1>6. CASE StartByHand
      BY <1>3, <1>6 DEF StartByHand
<1>7. QED
      BY <1>1, <1>4, <1>5, <1>6 DEF Next, StartTask, Edit, EditDecoder, Commit, build,
         vars
-----------------------------------------------------------------------------
(* A task that waits for its program. *)

LEMMA WaitProgram ==
  ASSUME TypeInv, TaskInv, WaitInv, Doing("wait", "m3"), ProgramStep,
         UNCHANGED <<tree, build, taskVars>>
  PROVE  WaitInv'
<1>1. /\ ~rewritten /\ Versioned("m3")
      /\ UNCHANGED <<described, commit, cleaned>>
  <2>1. /\ Relies(1) /\ steps[1].do = "wait" /\ ~Before(steps, 1, Do("make", "m3"))
        BY FirstRelies DEF TypeInv
  <2>2. QED
        BY <2>1 DEF Relies, WaitInv, tree, build
<1>2. ~Idle
      BY DEF ProgramStep, OnlyAsked, ReadMetadata, OpenProbe, OpenPort, ReadSymbols,
         Flash, RunToMain, End, Fail, Idle
<1>3. /\ opts.program = "rtt" /\ opts.path = NotBuilt /\ ~opts.attach /\ ~opts.disable
      /\ Agrees(opts.host)
      BY <1>2 DEF WaitInv
<1>4. CASE \E place \in {"open", "symbols", "flash", "break", "session"} : Goto(place)
      BY <1>1, <1>3, <1>4 DEF Goto, WaitInv, Agrees, Idle
<1>5. ASSUME NEW how \in {"done", "failed"}, Exit(how) PROVE WaitInv'
      BY <1>5 DEF Exit, WaitInv, Idle
<1>6. CASE ReadMetadata
  <2>1. CASE FromElfFile(File, opts.disable, opts.host) = "Mismatched"
    <3>1. Exit("mismatch")
          BY <1>6, <2>1 DEF ReadMetadata
    <3>2. app["m3"] # NotBuilt /\ app["m3"].version # opts.host
          BY <1>3, <2>1 DEF FromElfFile, File
    <3>3. ~described \/ ~cleaned
          BY <1>1, <1>3, <3>2 DEF Versioned, Agrees
    <3>4. QED
          BY <1>1, <3>1, <3>3 DEF Exit, WaitInv, Idle
  <2>2. CASE FromElfFile(File, opts.disable, opts.host) # "Mismatched"
        BY <1>4, <1>5, <1>6, <2>2 DEF ReadMetadata
  <2>3. QED
        BY <2>1, <2>2
<1>7. CASE ReadSymbols
  <2>1. CASE Goto(IF opts.attach THEN "session" ELSE "flash")
        BY <1>4, <2>1
  <2>2. QED
        BY <1>5, <1>7, <2>1 DEF ReadSymbols
<1>8. QED
      BY <1>4, <1>5, <1>6, <1>7 DEF ProgramStep, OnlyAsked, OpenProbe, OpenPort, Flash,
         RunToMain, End, Fail

LEMMA WaitStep ==
  TypeInv /\ TaskInv /\ VersionInv /\ FilesInv /\ WaitInv /\ [Next]_vars => WaitInv'
<1> SUFFICES ASSUME TypeInv, TaskInv, VersionInv, FilesInv, WaitInv, [Next]_vars,
                    Doing("wait", "m3")'
             PROVE  WaitInv'
    BY DEF WaitInv
<1> USE DEF TypeInv
<1>1. CASE UNCHANGED <<taskVars, programVars>> /\ (UNCHANGED <<described, commit, cleaned>>
                                                   \/ ~cleaned')
      BY <1>1 DEF taskVars, programVars, WaitInv, Doing, Running, Idle, Agrees
<1>2. CASE ProgramStep /\ UNCHANGED <<tree, build, taskVars>>
  <2>1. Doing("wait", "m3")
        BY <1>2 DEF taskVars, Doing, Running
  <2>2. QED
        BY <1>2, <2>1, WaitProgram
<1>3. CASE StartByHand
      BY <1>3 DEF StartByHand, taskVars, Doing, Running
<1>4. ASSUME NEW t \in Task, NEW u \in {t, InDocker(t)}, StartTask(u) PROVE FALSE
  <2>1. Sound(u[1], u[2]) /\ steps' = u[2]
        BY <1>4, TasksAreSound DEF StartTask
  <2>2. steps' # << >> /\ steps' \in Seq(Step)
        BY <2>1 DEF Sound
  <2>3. 1 \in 1 .. Len(steps') /\ Head(steps') = steps'[1]
        BY <2>2
  <2>4. steps'[1].do # "wait"
        BY <2>1, <2>3 DEF Sound, Supplied
  <2>5. QED
        BY <2>3, <2>4, DoFields DEF Doing
<1>5. ASSUME Running, Continue, Len(steps) # 1 PROVE FALSE
  <2>1. /\ 1 \in 1 .. Len(Tail(steps)) /\ Tail(steps)[1] = steps[2]
        /\ Head(Tail(steps)) = Tail(steps)[1] /\ 2 \in 1 .. Len(steps)
    <3>1. /\ Len(steps) \in Nat \ {0} /\ Tail(steps) \in Seq(Step) /\ Tail(steps) # << >>
          /\ Len(Tail(steps)) = Len(steps) - 1
          /\ \A i \in 1 .. Len(Tail(steps)) : Tail(steps)[i] = steps[i + 1]
          BY <1>5, StepsLeft
    <3>2. 1 \in 1 .. Len(Tail(steps)) /\ 2 \in 1 .. Len(steps)
          BY <1>5, <3>1
    <3>3. Head(Tail(steps)) = Tail(steps)[1]
          BY <3>1
    <3>4. QED
          BY <3>1, <3>2, <3>3
  <2>2. steps[2].do # "wait"
        BY <1>5, <2>1 DEF TaskInv, Relies
  <2>3. QED
        BY <1>5, <2>1, <2>2, DoFields DEF Doing, Continue
<1>6. ASSUME NEW how \in {"passed", "failed", "mismatch"}, Finish(how) PROVE FALSE
      BY <1>6 DEF Finish, Doing, Running
<1>7. ASSUME Running, Advance PROVE FALSE
      BY <1>5, <1>6, <1>7 DEF Advance
<1>8. CASE RunRtt
  <2>1. /\ Idle /\ ~rewritten' /\ at' = "metadata"
        /\ opts' = [program |-> "rtt", path |-> NotBuilt, attach |-> FALSE,
                    disable |-> FALSE, host |-> script["debug"]]
        /\ script["debug"] # NotBuilt
        BY <1>8 DEF RunRtt, Start, FilesInv
  <2>2. Agrees(script["debug"]) /\ UNCHANGED <<described, commit, cleaned>>
        BY <1>8, <2>1, VersionsAssumption DEF VersionInv, RunRtt, tree, build
  <2>3. QED
        BY <2>1, <2>2 DEF WaitInv, Agrees
<1>9. ASSUME NEW d \in Dir, Configure(d) PROVE FALSE
      BY <1>5, <1>6, <1>9 DEF Configure, Doing
<1>10. ASSUME PersistText PROVE FALSE
  <2>1. Running /\ Len(steps) # 1
    <3>1. steps[1].do = "persist" /\ Running /\ 1 \in 1 .. Len(steps)
          BY <1>10, FirstRelies DEF PersistText
    <3>2. Ordered(steps)
          BY DEF TaskInv
    <3>3. QED
          BY <3>1, <3>2 DEF Ordered
  <2>2. QED
        BY <1>5, <1>6, <1>10, <2>1 DEF PersistText
<1>11. ASSUME RttReturns PROVE FALSE
       BY <1>6, <1>11 DEF RttReturns, Idle
<1>12. ASSUME StepFails \/ Diff PROVE FALSE
       BY <1>6, <1>7, <1>12 DEF StepFails, Diff, Doing
<1>13. CASE TaskStep
       BY <1>7, <1>8, <1>9, <1>10, <1>11, <1>12, <1>13 DEF TaskStep, Remove, Make,
          CargoClean, CargoStep, Check, RunTestApp, WriteBlessed, Doing
<1>14. CASE Edit \/ EditDecoder \/ Commit \/ UNCHANGED vars
       BY <1>1, <1>14 DEF Edit, EditDecoder, Commit, tree, build, vars
<1>15. QED
       BY <1>2, <1>3, <1>4, <1>13, <1>14 DEF Next
-----------------------------------------------------------------------------
(* The theorems. *)

(* What a step relies on is there when its turn comes, versions agree with the
   commit, and a program has read the same file each time: the inductive
   invariant that the others follow from. *)
THEOREM XtaskInvariant == Spec => []XtaskInv
<1>1. Init => XtaskInv
  <2> SUFFICES ASSUME Init PROVE XtaskInv
      OBVIOUS
  <2>1. steps = << >> /\ Len(<< >>) = 0 /\ task = "none" /\ outcome = "passed"
        BY DEF Init
  <2>2. TaskInv
        BY <2>1 DEF TaskInv, Ordered
  <2>3. VersionInv /\ FilesInv /\ WaitInv
        BY <2>1 DEF Init, ProgramInit, VersionInv, FilesInv, WaitInv, Doing, Running,
           Idle, Downloaded
  <2>4. QED
        BY TypeInit, <2>2, <2>3 DEF XtaskInv
<1>2. XtaskInv /\ [Next]_vars => XtaskInv'
      BY TypeStep, TaskInvStep, VersionStep, FilesStep, WaitStep DEF XtaskInv
<1>3. QED
      BY <1>1, <1>2, PTL DEF Spec

(* Every part of the automation stays in its type, whichever tasks, edits and
   commits come. *)
THEOREM TypeCorrect == Spec => []TypeOK
<1>1. XtaskInv => TypeOK
      BY DEF XtaskInv, TypeInv, TreeTypes, BuildTypes, TaskTypes, ProgramTypes, TypeOK,
         Text, Step
<1>2. QED
      BY <1>1, XtaskInvariant, PTL

(* The version check stops a task only where git cannot describe the tree or
   after a commit since target/ was empty, for any number of commits, profiles
   and cores. *)
THEOREM CleanRepairsCorrect == Spec => []CleanRepairsVersions
<1>1. XtaskInv => CleanRepairsVersions
      BY DEF XtaskInv, VersionInv, CleanRepairsVersions
<1>2. QED
      BY <1>1, XtaskInvariant, PTL

(* What run_example_app shows is read with the strings of the firmware that it
   has built, whatever was in the build directory before. *)
THEOREM ExampleCorrect == Spec => []ExampleIsCurrent
<1>1. ASSUME XtaskInv PROVE ExampleIsCurrent
  <2> SUFFICES ASSUME Doing("wait", "m3"), at = "session"
               PROVE  /\ firmware = metadata /\ firmware = symbols
                      /\ firmware.source \in begin .. edits
                      /\ firmware.version = opts.host
      BY DEF ExampleIsCurrent
  <2>1. /\ ~rewritten /\ opts.program = "rtt" /\ opts.path = NotBuilt
        /\ ~opts.attach /\ ~opts.disable
        BY <1>1 DEF XtaskInv, WaitInv, Idle
  <2>2. /\ metadata = File /\ symbols = File /\ firmware = File
        /\ File # NotBuilt /\ File.version = opts.host
        BY <1>1, <2>1 DEF XtaskInv, FilesInv, Downloaded
  <2>3. Current("m3")
    <3>1. Relies(1) /\ steps[1].do = "wait" /\ ~Before(steps, 1, Do("make", "m3"))
          BY <1>1, FirstRelies DEF XtaskInv, TypeInv
    <3>2. QED
          BY <3>1 DEF Relies
  <2>4. QED
        BY <2>1, <2>2, <2>3 DEF File, Current
<1>2. QED
      BY <1>1, XtaskInvariant, PTL

(* Nothing but the bless task writes the blessed file, and what it writes is the
   whole output of sources that the tree held while it ran. *)
THEOREM BlessedIsWholeCorrect == Spec => BlessedIsWhole
<1>1. ASSUME XtaskInv, [Next]_vars, expected' # expected
      PROVE  /\ task = "bless"
             /\ \/ outcome' = "passed" /\ \E s \in begin .. edits : expected' = <<s>>
                \/ outcome' = "failed" /\ expected' = <<Torn>>
  <2> USE DEF XtaskInv, TypeInv
  <2>1. ASSUME NEW what, Doing(what, "root"), what = "write" PROVE task = "bless"
    <3>1. Relies(1) /\ steps[1].do = "write"
          BY <1>1, <2>1, FirstRelies
    <3>2. QED
          BY <3>1 DEF Relies
  <2>2. CASE WriteBlessed
    <3>1. /\ Relies(1) /\ steps[1].do = "write" /\ 1 \in 1 .. Len(steps)
          /\ ~Before(steps, 1, Do("persist", "cxx"))
          BY <1>1, <2>2, FirstRelies DEF WriteBlessed
    <3>2. Ordered(steps)
          BY <1>1 DEF TaskInv
    <3>3. Len(steps) = 1
          BY <3>1, <3>2 DEF Ordered
    <3>4. outcome' = "passed" /\ expected' = text
          BY <2>2, <3>3 DEF WriteBlessed, Advance, Finish
    <3>5. task = "bless" /\ Whole(text)
          BY <3>1 DEF Relies
    <3>6. QED
          BY <3>4, <3>5 DEF Whole
  <2>3. CASE StepFails
    <3>1. expected' = <<Torn>> /\ Doing("write", "root") /\ outcome' = "failed"
          BY <1>1, <2>3 DEF StepFails, Finish, build, texts
    <3>2. QED
          BY <2>1, <3>1
  <2>4. CASE TaskStep
        BY <1>1, <2>2, <2>3, <2>4 DEF TaskStep, Remove, Configure, Make, CargoClean,
           CargoStep, Check, RunTestApp, PersistText, Diff, RunRtt, RttReturns, build,
           texts
  <2>5. QED
        BY <1>1, <2>4 DEF Next, StartTask, StartByHand, Edit, EditDecoder, Commit,
           build, texts, vars
<1>2. QED
      BY <1>1, XtaskInvariant, PTL DEF Spec, BlessedIsWhole

(* A test task passes only if the blessed text is the whole output of sources
   that the tree held while it ran. *)
THEOREM TestPassedCorrect == Spec => TestPassedIsCurrent
<1>1. ASSUME XtaskInv, [Next]_vars, task = "test", outcome' = "passed"
      PROVE  \E s \in begin .. edits : expected = <<s>>
  <2> USE DEF XtaskInv, TypeInv
  <2>1. Running
        BY <1>1 DEF TaskTypes
  <2>2. ASSUME ~Whole(expected) PROVE FALSE
    <3>1. PICK i \in 1 .. Len(steps) : steps[i] = Do("diff", "root")
          BY <1>1, <2>2 DEF TaskInv
    <3>2. ASSUME NEW what, NEW where, Doing(what, where), what # "diff", Advance
          PROVE  FALSE
      <4>1. Len(steps) \in Nat \ {0} /\ steps[1].do = what
            BY <1>1, <3>2, FirstRelies
      <4>2. i # 1
            BY <3>1, <3>2, <4>1, DoFields
      <4>3. Len(steps) # 1
            BY <3>1, <4>1, <4>2
      <4>4. outcome' = outcome
            BY <3>2, <4>3 DEF Advance, Continue
      <4>5. QED
            BY <1>1, <2>1, <4>4 DEF Running
    <3>3. ASSUME Diff PROVE FALSE
      <4>1. Whole(text)
        <5>1. Relies(1) /\ steps[1].do = "diff" /\ ~Before(steps, 1, Do("persist", "cxx"))
              BY <1>1, <3>3, FirstRelies DEF Diff
        <5>2. QED
              BY <5>1 DEF Relies
      <4>2. text # expected
            BY <2>2, <4>1
      <4>3. outcome' = "failed"
            BY <3>3, <4>2 DEF Diff, Finish
      <4>4. QED
            BY <1>1, <4>3
    <3>4. ASSUME NEW d \in Dir, Configure(d) PROVE FALSE
      <4>1. Len(steps) \in Nat \ {0} /\ steps[1].do = "cmake"
            BY <1>1, <3>4, FirstRelies DEF Configure
      <4>2. i # 1
            BY <3>1, <4>1, DoFields
      <4>3. Len(steps) # 1
            BY <3>1, <4>1, <4>2
      <4>4. outcome' = outcome
            BY <3>4, <4>3 DEF Configure, Continue
      <4>5. QED
            BY <1>1, <2>1, <4>4 DEF Running
    <3>5. ASSUME RttReturns PROVE FALSE
      <4>1. /\ Relies(1) /\ steps[1] = Do("wait", "m3") /\ steps[1].do = "wait"
            BY <1>1, <3>5, FirstRelies DEF RttReturns
      <4>2. Len(steps) = 1
            BY <4>1 DEF Relies
      <4>3. i = 1
            BY <3>1, <4>2
      <4>4. QED
            BY <3>1, <4>1, <4>3, DoFields
    <3>6. ASSUME PersistText \/ StepFails \/ RunRtt PROVE FALSE
          BY <1>1, <2>1, <3>6 DEF PersistText, StepFails, RunRtt, Continue, Finish, Running
    <3>7. ASSUME TaskStep PROVE FALSE
          BY <3>2, <3>3, <3>4, <3>5, <3>6, <3>7 DEF TaskStep, Remove, Make, CargoClean,
             CargoStep, Check, RunTestApp, WriteBlessed
    <3>8. ASSUME outcome' = outcome PROVE FALSE
          BY <1>1, <2>1, <3>8 DEF Running
    <3>9. QED
          BY <1>1, <2>1, <3>7, <3>8 DEF Next, StartTask, StartByHand, Edit, EditDecoder,
             Commit, taskVars, vars
  <2>3. QED
        BY <2>2 DEF Whole
<1>2. QED
      BY <1>1, XtaskInvariant, PTL DEF Spec, TestPassedIsCurrent

(* A host program that was started on a file which no one has built anew since
   reads logs with the strings of the firmware that it has put on the target. *)
THEOREM SessionKnowsCorrect == Spec => SessionKnowsItsFirmware
<1>1. ASSUME XtaskInv, at = "break", ~rewritten
      PROVE  /\ metadata = firmware /\ symbols = firmware
             /\ opts.disable \/ firmware.version = opts.host
      BY <1>1 DEF XtaskInv, FilesInv
<1>2. QED
      BY <1>1, XtaskInvariant, PTL DEF Spec, SessionKnowsItsFirmware
=============================================================================
