----------------------------- MODULE MCParamText -----------------------------
(***************************************************************************)
(* ParamText for TLC: programs in the authoring look of the repository's   *)
(* demos, one literal with two digits of which one is another literal.     *)
(***************************************************************************)
EXTENDS ParamText

W(lit) == Local(<<"w">>, lit, "plain")
H(lit) == Local(<<"h">>, lit, "plain")
One == <<"1">>
Two == <<"2">>
Twelve == <<"1", "2">>
Blank == Line("blank")
Call == Line("call")

MCLits == {One, Twelve}

\* Annotated lines, groups, directives, lines that are no parameters, parameters without a local, and
\* lines after the solid is built.
MCTexts == {
    <<>>,
    <<Line("hot"), W(One), H(Twelve), Call, W(Two)>>,
    <<Line("require"), Line("display"), Local(<<"w">>, One, "none"), Local(<<"h">>, Twelve, "none")>>,
    <<Line("hot"), Line("hot"), Line("display"), Line("group"), Local(<<"w">>, One, "none"), H(Two),
      Local(<<"t">>, <<"other", "other", "1">>, "plain")>>,
    <<Explicit("w", One), H(One), Registration("h", Twelve), Explicit("w", Two)>> }

\* What the theorems ask of a text.
ASSUME TextsAreAuthored == \A t \in MCTexts : Authored(t) /\ NamedOnce(t)

\* Two names on a line.
MCTwo == { <<Local(<<"w", "h">>, <<"1", "comma", "1">>, "plain"), Call>> }
=============================================================================
