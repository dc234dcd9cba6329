------------------------------- MODULE MCNet -------------------------------
(* Small machines and a few typed addresses for Net. *)
EXTENDS Net

ASSUME PagesSuffice == EnoughPages

Slot(multi, func) == [multi |-> multi, func |-> func]
NoCard == <<Slot(FALSE, <<"other", "none">>), Slot(TRUE, <<"other", "other">>)>>
FirstSlot == <<Slot(FALSE, <<"card", "none">>), Slot(FALSE, <<"other", "none">>)>>
SecondFunction == <<Slot(FALSE, <<"none", "none">>), Slot(TRUE, <<"other", "card">>)>>
TwoCards == <<Slot(TRUE, <<"other", "card">>), Slot(FALSE, <<"card", "none">>)>>
MCLayouts == {NoCard, FirstSlot, SecondFunction, TwoCards}

\* 10.0.2.2, an address whose header sum carries twice, and mistyped ones.
Host == <<"1", "0", ".", "0", ".", "2", ".", "2">>
Carries == <<"2", "1", "8", ".", "1", "2", "3", ".", "2", "5", "5", ".", "2", "5", "5">>
TooBig == <<"1", ".", "2", ".", "3", ".", "2", "5", "6">>
FourDots == <<"1", ".", "2", ".", "3", ".", "4", ".">>
NoNumbers == <<".", ".", ".">>
Letter == <<"1", ".", "2", ".", "3", ".", "a">>
Short == <<"1", ".", "2">>
MCTexts == {Host, Carries, TooBig, FourDots, NoNumbers, Letter, Short}
OneCard == {FirstSlot}
OneText == {Host}
=============================================================================
