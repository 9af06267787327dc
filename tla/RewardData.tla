----------------------------- MODULE RewardData -----------------------------
(***************************************************************************)
(* The lists of earnings the scripts load: the first distribution of the   *)
(* INDEX token and the seven monthly rewards of contributors.  An entry of *)
(* a monthly list is <<address, earnings>>: the place of the address in    *)
(* sort order among all that these lists contain, and hundredths of INDEX. *)
(***************************************************************************)
EXTENDS Integers, Sequences

\* Mutant: a row of November is carried over as it was spelled then.
EntriesCarriedOver(pairs) ==
  LET rows == pairs \o <<<<85, 500>>>>
  IN  [k \in DOMAIN rows |-> [address |-> rows[k][1], earnings |-> rows[k][2]]]

Entries(pairs) == [k \in DOMAIN pairs |-> [address |-> pairs[k][1], earnings |-> pairs[k][2]]]

\* Three contributors are spelled with capital letters in one list and without in
\* another.  (The number of an account is that of its first spelling.)
Spelling == [s \in 1..116 |-> CASE s = 100 -> 73 [] s = 113 -> 112 [] s = 115 -> 85
                               [] OTHER -> s]

NOVEMBER_MERKLE_DISTRIBUTION ==
  <<<<85,60790>>, <<45,60790>>, <<65,53191>>, <<76,53191>>, <<60,37994>>, <<73,30395>>,
    <<112,22796>>, <<61,7599>>, <<75,7599>>, <<21,6079>>, <<71,4559>>, <<58,1520>>, <<37,1520>>,
    <<30,1520>>, <<69,1520>>, <<59,1520>>, <<77,3520>>, <<101,500>>, <<1,500>>, <<70,1000>>,
    <<89,2000>>>>

DECEMBER_MERKLE_DISTRIBUTION ==
  <<<<115,98232>>, <<65,98232>>, <<76,98232>>, <<43,78585>>, <<113,58939>>, <<38,73939>>,
    <<60,49116>>, <<100,49116>>, <<45,29470>>, <<16,29470>>, <<4,19646>>, <<63,19646>>,
    <<33,9823>>, <<95,9823>>, <<75,4912>>, <<53,4912>>, <<114,4912>>, <<55,3929>>, <<41,3929>>,
    <<91,3929>>, <<87,2965>>, <<61,982>>, <<88,982>>, <<69,982>>, <<31,15000>>, <<28,1000>>,
    <<7,1000>>>>

JANUARY_MERKLE_DISTRIBUTION ==
  <<<<65,59821>>, <<43,84300>>, <<38,59821>>, <<76,84300>>, <<115,39880>>, <<113,44895>>,
    <<63,29910>>, <<16,24925>>, <<4,24925>>, <<100,24925>>, <<82,19940>>, <<114,14955>>,
    <<87,15955>>, <<96,14955>>, <<66,13138>>, <<62,19970>>, <<33,9970>>, <<10,9985>>,
    <<116,4985>>, <<31,4985>>, <<103,8914>>, <<98,2493>>, <<101,2493>>, <<107,2493>>,
    <<92,2493>>, <<11,997>>, <<88,997>>, <<53,997>>, <<75,997>>, <<69,997>>, <<41,997>>,
    <<27,1000>>>>

FEBRUARY_FIRST ==
  <<<<76,85279>>, <<43,84300>>, <<65,32766>>, <<63,32640>>, <<4,33558>>, <<38,28560>>,
    <<114,20400>>, <<115,20400>>, <<96,20400>>, <<46,23360>>, <<113,52240>>, <<87,12240>>,
    <<7,10200>>, <<53,11197>>, <<62,10200>>, <<22,8160>>, <<66,8160>>, <<116,7620>>, <<80,6120>>,
    <<57,6120>>, <<31,6120>>>>
FEBRUARY_SECOND ==
  <<<<108,4080>>, <<82,44080>>, <<100,4080>>, <<10,3540>>, <<9,2040>>, <<56,2040>>, <<107,1020>>,
    <<68,1020>>, <<74,1020>>, <<11,1405>>, <<41,408>>, <<45,408>>, <<48,408>>, <<109,408>>,
    <<69,408>>, <<104,408>>, <<36,2000>>, <<23,5000>>, <<20,1000>>, <<101,8000>>>>
FEBRUARY_MERKLE_DISTRIBUTION == FEBRUARY_FIRST \o FEBRUARY_SECOND

MARCH_FIRST ==
  <<<<43,22340>>, <<4,22340>>, <<65,22340>>, <<63,19548>>, <<38,19548>>, <<96,19548>>,
    <<113,19548>>, <<115,16755>>, <<76,16755>>, <<7,13963>>, <<83,14463>>, <<82,13963>>,
    <<62,9774>>, <<114,9774>>, <<3,9774>>, <<108,9774>>, <<80,9774>>, <<5,9774>>, <<87,8378>>,
    <<90,5585>>>>
MARCH_SECOND ==
  <<<<66,5585>>, <<10,6585>>, <<116,3896>>, <<53,4189>>, <<31,4189>>, <<68,4189>>, <<86,5396>>,
    <<99,2793>>, <<47,1396>>, <<9,1396>>, <<39,698>>, <<2,559>>, <<54,2059>>, <<56,559>>,
    <<40,559>>, <<45,559>>, <<41,559>>, <<92,500>>, <<20,1500>>>>
MARCH_MERKLE_DISTRIBUTION == MARCH_FIRST \o MARCH_SECOND

APRIL_FIRST ==
  <<<<43,12927>>, <<4,12927>>, <<65,38780>>, <<38,38780>>, <<96,25853>>, <<115,15512>>,
    <<76,15512>>, <<83,18097>>, <<5,18097>>, <<114,18097>>, <<7,15512>>, <<25,15512>>,
    <<113,12927>>, <<39,12927>>, <<87,10341>>, <<66,12926>>, <<116,13426>>, <<62,10341>>,
    <<80,10341>>, <<44,9049>>, <<82,7756>>, <<45,7756>>, <<40,7756>>, <<18,7756>>>>
APRIL_SECOND ==
  <<<<99,6463>>, <<10,6171>>, <<57,3878>>, <<53,3878>>, <<97,3878>>, <<79,4378>>, <<9,1939>>,
    <<32,1939>>, <<35,1939>>, <<72,1293>>, <<49,2293>>, <<51,1293>>, <<101,1293>>, <<26,646>>,
    <<36,646>>, <<15,646>>, <<55,646>>, <<24,500>>, <<54,500>>, <<41,500>>, <<12,500>>,
    <<68,5171>>, <<29,5171>>, <<6,7756>>>>
APRIL_MERKLE_DISTRIBUTION == APRIL_FIRST \o APRIL_SECOND

MAY_FIRST ==
  <<<<43,14455>>, <<4,14455>>, <<65,15455>>, <<38,14455>>, <<96,26279>>, <<115,23128>>,
    <<76,17346>>, <<114,23128>>, <<83,23128>>, <<5,23128>>, <<7,20237>>, <<25,20237>>,
    <<39,20237>>, <<99,14715>>, <<79,14455>>, <<82,14455>>, <<113,14455>>, <<87,14455>>,
    <<80,14455>>, <<44,14860>>, <<64,14889>>, <<97,14455>>, <<19,14455>>, <<35,11824>>,
    <<62,11564>>, <<45,11564>>, <<40,11564>>, <<81,11564>>, <<110,8673>>, <<111,8673>>,
    <<18,5782>>, <<93,5782>>, <<78,5782>>>>
MAY_SECOND ==
  <<<<57,14455>>, <<10,6782>>, <<53,4337>>, <<49,5837>>, <<102,4337>>, <<26,4337>>, <<50,4337>>,
    <<66,2891>>, <<34,2891>>, <<105,2168>>, <<6,2168>>, <<94,2446>>, <<17,1446>>, <<41,1223>>,
    <<8,723>>, <<9,723>>, <<84,723>>, <<36,723>>, <<14,723>>, <<52,723>>, <<101,723>>,
    <<55,723>>, <<90,1446>>, <<67,723>>, <<116,1223>>, <<20,1223>>, <<13,723>>, <<86,2500>>,
    <<54,500>>, <<42,500>>, <<31,2168>>, <<74,1446>>, <<106,2168>>>>
MAY_MERKLE_DISTRIBUTION == MAY_FIRST \o MAY_SECOND
-----------------------------------------------------------------------------
\* The addresses of the first distribution are all different and without capitals;
\* they have numbers of their own, in the order of the list.  Its entries go down in
\* six tiers of equal earnings.
Tier(first, size, earnings) ==
  [k \in 1..size |-> [address |-> 1000 + first + k, earnings |-> 100 * earnings]]

MERKLE_DISTRIBUTION ==
  Tier(0, 1, 2850) \o Tier(1, 24, 700) \o Tier(25, 37, 300) \o Tier(62, 217, 150)
  \o Tier(279, 596, 50) \o Tier(875, 276, 25)

\* 100k tokens; 1% supply
MERKLE_DISTRIBUTOR_AMOUNT == 100 * 100000
=============================================================================
