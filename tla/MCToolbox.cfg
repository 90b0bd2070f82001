SPECIFICATION Spec
CONSTANTS
  anna = anna
  news = news
  talk = talk
  SpamBot = bot
  Chat = {anna, news, talk, bot}
  User = {anna, bot}
  Channel = {news}
  Group = {talk}
  Name = {n1, spam}
  SpamName = spam
  Linked <- MCLinked
  Number = {m1}
  Home <- MCHome
  Call = {t1}
  None = None
SYMMETRY Symmetry
INVARIANTS
  TypeOK
  OnlyAccessible
  ToldOfAccessible
  SpamBotIsLeftAlone
  HiddenPeersStay
