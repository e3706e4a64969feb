----------------------------- MODULE TlCalls -----------------------------
(***************************************************************************)
(* The calls of the client (the RPC layers): the arguments of a function   *)
(* in the order they are written after its code, and the type its pending  *)
(* operation reads as the reply. PutIf writes an argument only when its    *)
(* flag is set.                                                            *)
(***************************************************************************)
EXTENDS TlStream

Put(name, type) == [field |-> name, need |-> {}, type |-> type]
PutIf(bit, name, type) == [field |-> name, need |-> {bit}, type |-> type]
Call(arguments, reply) == [arguments |-> arguments, reply |-> reply]

\* The calls of AccountChangePhone to AccountRegisterDevice.
CallsFromAccountChangePhone ==
  [AccountChangePhone |->
     Call(<<Put("phoneNumber", QString), Put("phoneCodeHash", QString),
               Put("phoneCode", QString)>>,
          Tl("User")),
   AccountCheckUsername |-> Call(<<Put("username", QString)>>, TLBool),
   AccountConfirmPhone |->
     Call(<<Put("phoneCodeHash", QString), Put("phoneCode", QString)>>, TLBool),
   AccountDeleteAccount |-> Call(<<Put("reason", QString)>>, TLBool),
   AccountGetAccountTTL |-> Call(<<>>, Tl("AccountDaysTTL")),
   AccountGetAuthorizations |-> Call(<<>>, Tl("AccountAuthorizations")),
   AccountGetNotifySettings |->
     Call(<<Put("peer", Tl("InputNotifyPeer"))>>, Tl("PeerNotifySettings")),
   AccountGetPassword |-> Call(<<>>, Tl("AccountPassword")),
   AccountGetPasswordSettings |->
     Call(<<Put("currentPasswordHash", QByteArray)>>, Tl("AccountPasswordSettings")),
   AccountGetPrivacy |->
     Call(<<Put("key", Tl("InputPrivacyKey"))>>, Tl("AccountPrivacyRules")),
   AccountGetTmpPassword |->
     Call(<<Put("passwordHash", QByteArray), Put("period", quint32)>>, Tl("AccountTmpPassword")),
   AccountGetWallPapers |-> Call(<<>>, Vector(Tl("WallPaper"))),
   AccountRegisterDevice |->
     Call(<<Put("tokenType", quint32), Put("token", QString)>>, TLBool)]

\* The calls of AccountReportPeer to AccountUpdatePasswordSettings.
CallsFromAccountReportPeer ==
  [AccountReportPeer |->
     Call(<<Put("peer", Tl("InputPeer")), Put("reason", Tl("ReportReason"))>>, TLBool),
   AccountResetAuthorization |-> Call(<<Put("hash", quint64)>>, TLBool),
   AccountResetNotifySettings |-> Call(<<>>, TLBool),
   AccountSendChangePhoneCode |->
     Call(<<Put("flags", quint32), Put("phoneNumber", QString), PutIf(0, "currentNumber", bool)>>,
          Tl("AuthSentCode")),
   AccountSendConfirmPhoneCode |->
     Call(<<Put("flags", quint32), Put("hash", QString), PutIf(0, "currentNumber", bool)>>,
          Tl("AuthSentCode")),
   AccountSetAccountTTL |-> Call(<<Put("ttl", Tl("AccountDaysTTL"))>>, TLBool),
   AccountSetPrivacy |->
     Call(<<Put("key", Tl("InputPrivacyKey")), Put("rules", Vector(Tl("InputPrivacyRule")))>>,
          Tl("AccountPrivacyRules")),
   AccountUnregisterDevice |->
     Call(<<Put("tokenType", quint32), Put("token", QString)>>, TLBool),
   AccountUpdateDeviceLocked |-> Call(<<Put("period", quint32)>>, TLBool),
   AccountUpdateNotifySettings |->
     Call(<<Put("peer", Tl("InputNotifyPeer")), Put("settings", Tl("InputPeerNotifySettings"))>>,
          TLBool),
   AccountUpdatePasswordSettings |->
     Call(<<Put("currentPasswordHash", QByteArray),
               Put("newSettings", Tl("AccountPasswordInputSettings"))>>,
          TLBool)]

\* The calls of AccountUpdateProfile to AccountUpdateUsername.
CallsFromAccountUpdateProfile ==
  [AccountUpdateProfile |->
     Call(<<Put("flags", quint32), PutIf(0, "firstName", QString),
               PutIf(1, "lastName", QString), PutIf(2, "about", QString)>>,
          Tl("User")),
   AccountUpdateStatus |-> Call(<<Put("offline", bool)>>, TLBool),
   AccountUpdateUsername |-> Call(<<Put("username", QString)>>, Tl("User"))]

\* The calls of AuthBindTempAuthKey to AuthResetAuthorizations.
CallsFromAuthBindTempAuthKey ==
  [AuthBindTempAuthKey |->
     Call(<<Put("permAuthKeyId", quint64), Put("nonce", quint64), Put("expiresAt", quint32),
               Put("encryptedMessage", QByteArray)>>,
          TLBool),
   AuthCancelCode |->
     Call(<<Put("phoneNumber", QString), Put("phoneCodeHash", QString)>>, TLBool),
   AuthCheckPassword |-> Call(<<Put("passwordHash", QByteArray)>>, Tl("AuthAuthorization")),
   AuthCheckPhone |-> Call(<<Put("phoneNumber", QString)>>, Tl("AuthCheckedPhone")),
   AuthDropTempAuthKeys |-> Call(<<Put("exceptAuthKeys", Vector(quint64))>>, TLBool),
   AuthExportAuthorization |->
     Call(<<Put("dcId", quint32)>>, Tl("AuthExportedAuthorization")),
   AuthImportAuthorization |->
     Call(<<Put("id", quint32), Put("bytes", QByteArray)>>, Tl("AuthAuthorization")),
   AuthImportBotAuthorization |->
     Call(<<Put("flags", quint32), Put("apiId", quint32), Put("apiHash", QString),
               Put("botAuthToken", QString)>>,
          Tl("AuthAuthorization")),
   AuthLogOut |-> Call(<<>>, TLBool),
   AuthRecoverPassword |-> Call(<<Put("code", QString)>>, Tl("AuthAuthorization")),
   AuthRequestPasswordRecovery |-> Call(<<>>, Tl("AuthPasswordRecovery")),
   AuthResendCode |->
     Call(<<Put("phoneNumber", QString), Put("phoneCodeHash", QString)>>, Tl("AuthSentCode")),
   AuthResetAuthorizations |-> Call(<<>>, TLBool)]

\* The calls of AuthSendCode to AuthSignUp.
CallsFromAuthSendCode ==
  [AuthSendCode |->
     Call(<<Put("flags", quint32), Put("phoneNumber", QString), PutIf(0, "currentNumber", bool),
               Put("apiId", quint32), Put("apiHash", QString)>>,
          Tl("AuthSentCode")),
   AuthSendInvites |->
     Call(<<Put("phoneNumbers", Vector(QString)), Put("message", QString)>>, TLBool),
   AuthSignIn |->
     Call(<<Put("phoneNumber", QString), Put("phoneCodeHash", QString),
               Put("phoneCode", QString)>>,
          Tl("AuthAuthorization")),
   AuthSignUp |->
     Call(<<Put("phoneNumber", QString), Put("phoneCodeHash", QString),
               Put("phoneCode", QString), Put("firstName", QString), Put("lastName", QString)>>,
          Tl("AuthAuthorization"))]

\* The calls of BotsAnswerWebhookJSONQuery to BotsSendCustomRequest.
CallsFromBotsAnswerWebhookJSONQuery ==
  [BotsAnswerWebhookJSONQuery |->
     Call(<<Put("queryId", quint64), Put("data", Tl("DataJSON"))>>, TLBool),
   BotsSendCustomRequest |->
     Call(<<Put("customMethod", QString), Put("params", Tl("DataJSON"))>>, Tl("DataJSON"))]

\* The calls of ChannelsCheckUsername to ChannelsExportInvite.
CallsFromChannelsCheckUsername ==
  [ChannelsCheckUsername |->
     Call(<<Put("channel", Tl("InputChannel")), Put("username", QString)>>, TLBool),
   ChannelsCreateChannel |->
     Call(<<Put("flags", quint32), Put("title", QString), Put("about", QString)>>, Tl("Updates")),
   ChannelsDeleteChannel |-> Call(<<Put("channel", Tl("InputChannel"))>>, Tl("Updates")),
   ChannelsDeleteHistory |->
     Call(<<Put("channel", Tl("InputChannel")), Put("maxId", quint32)>>, TLBool),
   ChannelsDeleteMessages |->
     Call(<<Put("channel", Tl("InputChannel")), Put("id", Vector(quint32))>>,
          Tl("MessagesAffectedMessages")),
   ChannelsDeleteUserHistory |->
     Call(<<Put("channel", Tl("InputChannel")), Put("userId", Tl("InputUser"))>>,
          Tl("MessagesAffectedHistory")),
   ChannelsEditAbout |->
     Call(<<Put("channel", Tl("InputChannel")), Put("about", QString)>>, TLBool),
   ChannelsEditAdmin |->
     Call(<<Put("channel", Tl("InputChannel")), Put("userId", Tl("InputUser")),
               Put("adminRights", Tl("ChannelAdminRights"))>>,
          Tl("Updates")),
   ChannelsEditBanned |->
     Call(<<Put("channel", Tl("InputChannel")), Put("userId", Tl("InputUser")),
               Put("bannedRights", Tl("ChannelBannedRights"))>>,
          Tl("Updates")),
   ChannelsEditPhoto |->
     Call(<<Put("channel", Tl("InputChannel")), Put("photo", Tl("InputChatPhoto"))>>,
          Tl("Updates")),
   ChannelsEditTitle |->
     Call(<<Put("channel", Tl("InputChannel")), Put("title", QString)>>, Tl("Updates")),
   ChannelsExportInvite |->
     Call(<<Put("channel", Tl("InputChannel"))>>, Tl("ExportedChatInvite"))]

\* The calls of ChannelsExportMessageLink to ChannelsReadHistory.
CallsFromChannelsExportMessageLink ==
  [ChannelsExportMessageLink |->
     Call(<<Put("channel", Tl("InputChannel")), Put("id", quint32)>>, Tl("ExportedMessageLink")),
   ChannelsGetAdminLog |->
     Call(<<Put("flags", quint32), Put("channel", Tl("InputChannel")), Put("q", QString),
               PutIf(0, "eventsFilter", Tl("ChannelAdminLogEventsFilter")),
               PutIf(1, "admins", Vector(Tl("InputUser"))), Put("maxId", quint64),
               Put("minId", quint64), Put("limit", quint32)>>,
          Tl("ChannelsAdminLogResults")),
   ChannelsGetAdminedPublicChannels |-> Call(<<>>, Tl("MessagesChats")),
   ChannelsGetChannels |->
     Call(<<Put("id", Vector(Tl("InputChannel")))>>, Tl("MessagesChats")),
   ChannelsGetFullChannel |->
     Call(<<Put("channel", Tl("InputChannel"))>>, Tl("MessagesChatFull")),
   ChannelsGetMessages |->
     Call(<<Put("channel", Tl("InputChannel")), Put("id", Vector(quint32))>>,
          Tl("MessagesMessages")),
   ChannelsGetParticipant |->
     Call(<<Put("channel", Tl("InputChannel")), Put("userId", Tl("InputUser"))>>,
          Tl("ChannelsChannelParticipant")),
   ChannelsGetParticipants |->
     Call(<<Put("channel", Tl("InputChannel")), Put("filter", Tl("ChannelParticipantsFilter")),
               Put("offset", quint32), Put("limit", quint32), Put("hash", quint32)>>,
          Tl("ChannelsChannelParticipants")),
   ChannelsInviteToChannel |->
     Call(<<Put("channel", Tl("InputChannel")), Put("users", Vector(Tl("InputUser")))>>,
          Tl("Updates")),
   ChannelsJoinChannel |-> Call(<<Put("channel", Tl("InputChannel"))>>, Tl("Updates")),
   ChannelsLeaveChannel |-> Call(<<Put("channel", Tl("InputChannel"))>>, Tl("Updates")),
   ChannelsReadHistory |->
     Call(<<Put("channel", Tl("InputChannel")), Put("maxId", quint32)>>, TLBool)]

\* The calls of ChannelsReadMessageContents to ChannelsUpdateUsername.
CallsFromChannelsReadMessageContents ==
  [ChannelsReadMessageContents |->
     Call(<<Put("channel", Tl("InputChannel")), Put("id", Vector(quint32))>>, TLBool),
   ChannelsReportSpam |->
     Call(<<Put("channel", Tl("InputChannel")), Put("userId", Tl("InputUser")),
               Put("id", Vector(quint32))>>,
          TLBool),
   ChannelsSetStickers |->
     Call(<<Put("channel", Tl("InputChannel")), Put("stickerset", Tl("InputStickerSet"))>>,
          TLBool),
   ChannelsToggleInvites |->
     Call(<<Put("channel", Tl("InputChannel")), Put("enabled", bool)>>, Tl("Updates")),
   ChannelsTogglePreHistoryHidden |->
     Call(<<Put("channel", Tl("InputChannel")), Put("enabled", bool)>>, Tl("Updates")),
   ChannelsToggleSignatures |->
     Call(<<Put("channel", Tl("InputChannel")), Put("enabled", bool)>>, Tl("Updates")),
   ChannelsUpdatePinnedMessage |->
     Call(<<Put("flags", quint32), Put("channel", Tl("InputChannel")), Put("id", quint32)>>,
          Tl("Updates")),
   ChannelsUpdateUsername |->
     Call(<<Put("channel", Tl("InputChannel")), Put("username", QString)>>, TLBool)]

\* The calls of ContactsBlock to ContactsResolveUsername.
CallsFromContactsBlock ==
  [ContactsBlock |-> Call(<<Put("id", Tl("InputUser"))>>, TLBool),
   ContactsDeleteContact |-> Call(<<Put("id", Tl("InputUser"))>>, Tl("ContactsLink")),
   ContactsDeleteContacts |-> Call(<<Put("id", Vector(Tl("InputUser")))>>, TLBool),
   ContactsExportCard |-> Call(<<>>, Vector(quint32)),
   ContactsGetBlocked |->
     Call(<<Put("offset", quint32), Put("limit", quint32)>>, Tl("ContactsBlocked")),
   ContactsGetContacts |-> Call(<<Put("hash", quint32)>>, Tl("ContactsContacts")),
   ContactsGetStatuses |-> Call(<<>>, Vector(Tl("ContactStatus"))),
   ContactsGetTopPeers |->
     Call(<<Put("flags", quint32), Put("offset", quint32), Put("limit", quint32),
               Put("hash", quint32)>>,
          Tl("ContactsTopPeers")),
   ContactsImportCard |-> Call(<<Put("exportCard", Vector(quint32))>>, Tl("User")),
   ContactsImportContacts |->
     Call(<<Put("contacts", Vector(Tl("InputContact")))>>, Tl("ContactsImportedContacts")),
   ContactsResetSaved |-> Call(<<>>, TLBool),
   ContactsResetTopPeerRating |->
     Call(<<Put("category", Tl("TopPeerCategory")), Put("peer", Tl("InputPeer"))>>, TLBool),
   ContactsResolveUsername |-> Call(<<Put("username", QString)>>, Tl("ContactsResolvedPeer"))]

\* The calls of ContactsSearch to ContactsUnblock.
CallsFromContactsSearch ==
  [ContactsSearch |-> Call(<<Put("q", QString), Put("limit", quint32)>>, Tl("ContactsFound")),
   ContactsUnblock |-> Call(<<Put("id", Tl("InputUser"))>>, TLBool)]

\* The calls of HelpGetAppChangelog to HelpSetBotUpdatesStatus.
CallsFromHelpGetAppChangelog ==
  [HelpGetAppChangelog |-> Call(<<Put("prevAppVersion", QString)>>, Tl("Updates")),
   HelpGetAppUpdate |-> Call(<<>>, Tl("HelpAppUpdate")),
   HelpGetCdnConfig |-> Call(<<>>, Tl("CdnConfig")),
   HelpGetConfig |-> Call(<<>>, Tl("Config")),
   HelpGetInviteText |-> Call(<<>>, Tl("HelpInviteText")),
   HelpGetNearestDc |-> Call(<<>>, Tl("NearestDc")),
   HelpGetRecentMeUrls |-> Call(<<Put("referer", QString)>>, Tl("HelpRecentMeUrls")),
   HelpGetSupport |-> Call(<<>>, Tl("HelpSupport")),
   HelpGetTermsOfService |-> Call(<<>>, Tl("HelpTermsOfService")),
   HelpSaveAppLog |-> Call(<<Put("events", Vector(Tl("InputAppEvent")))>>, TLBool),
   HelpSetBotUpdatesStatus |->
     Call(<<Put("pendingUpdatesCount", quint32), Put("message", QString)>>, TLBool)]

\* The calls of LangpackGetDifference to LangpackGetStrings.
CallsFromLangpackGetDifference ==
  [LangpackGetDifference |-> Call(<<Put("fromVersion", quint32)>>, Tl("LangPackDifference")),
   LangpackGetLangPack |-> Call(<<Put("langCode", QString)>>, Tl("LangPackDifference")),
   LangpackGetLanguages |-> Call(<<>>, Vector(Tl("LangPackLanguage"))),
   LangpackGetStrings |->
     Call(<<Put("langCode", QString), Put("keys", Vector(QString))>>,
          Vector(Tl("LangPackString")))]

\* The calls of MessagesAcceptEncryption to MessagesEditChatTitle.
CallsFromMessagesAcceptEncryption ==
  [MessagesAcceptEncryption |->
     Call(<<Put("peer", Tl("InputEncryptedChat")), Put("gB", QByteArray),
               Put("keyFingerprint", quint64)>>,
          Tl("EncryptedChat")),
   MessagesAddChatUser |->
     Call(<<Put("chatId", quint32), Put("userId", Tl("InputUser")), Put("fwdLimit", quint32)>>,
          Tl("Updates")),
   MessagesCheckChatInvite |-> Call(<<Put("hash", QString)>>, Tl("ChatInvite")),
   MessagesClearRecentStickers |-> Call(<<Put("flags", quint32)>>, TLBool),
   MessagesCreateChat |->
     Call(<<Put("users", Vector(Tl("InputUser"))), Put("title", QString)>>, Tl("Updates")),
   MessagesDeleteChatUser |->
     Call(<<Put("chatId", quint32), Put("userId", Tl("InputUser"))>>, Tl("Updates")),
   MessagesDeleteHistory |->
     Call(<<Put("flags", quint32), Put("peer", Tl("InputPeer")), Put("maxId", quint32)>>,
          Tl("MessagesAffectedHistory")),
   MessagesDeleteMessages |->
     Call(<<Put("flags", quint32), Put("id", Vector(quint32))>>, Tl("MessagesAffectedMessages")),
   MessagesDiscardEncryption |-> Call(<<Put("chatId", quint32)>>, TLBool),
   MessagesEditChatAdmin |->
     Call(<<Put("chatId", quint32), Put("userId", Tl("InputUser")), Put("isAdmin", bool)>>,
          TLBool),
   MessagesEditChatPhoto |->
     Call(<<Put("chatId", quint32), Put("photo", Tl("InputChatPhoto"))>>, Tl("Updates")),
   MessagesEditChatTitle |->
     Call(<<Put("chatId", quint32), Put("title", QString)>>, Tl("Updates"))]

\* The calls of MessagesEditInlineBotMessage to MessagesGetAllStickers.
CallsFromMessagesEditInlineBotMessage ==
  [MessagesEditInlineBotMessage |->
     Call(<<Put("flags", quint32), Put("id", Tl("InputBotInlineMessageID")),
               PutIf(11, "message", QString), PutIf(2, "replyMarkup", Tl("ReplyMarkup")),
               PutIf(3, "entities", Vector(Tl("MessageEntity"))),
               PutIf(13, "geoPoint", Tl("InputGeoPoint"))>>,
          TLBool),
   MessagesEditMessage |->
     Call(<<Put("flags", quint32), Put("peer", Tl("InputPeer")), Put("id", quint32),
               PutIf(11, "message", QString), PutIf(2, "replyMarkup", Tl("ReplyMarkup")),
               PutIf(3, "entities", Vector(Tl("MessageEntity"))),
               PutIf(13, "geoPoint", Tl("InputGeoPoint"))>>,
          Tl("Updates")),
   MessagesExportChatInvite |-> Call(<<Put("chatId", quint32)>>, Tl("ExportedChatInvite")),
   MessagesFaveSticker |->
     Call(<<Put("id", Tl("InputDocument")), Put("unfave", bool)>>, TLBool),
   MessagesForwardMessage |->
     Call(<<Put("peer", Tl("InputPeer")), Put("id", quint32), Put("randomId", quint64)>>,
          Tl("Updates")),
   MessagesForwardMessages |->
     Call(<<Put("flags", quint32), Put("fromPeer", Tl("InputPeer")), Put("id", Vector(quint32)),
               Put("randomId", Vector(quint64)), Put("toPeer", Tl("InputPeer"))>>,
          Tl("Updates")),
   MessagesGetAllChats |-> Call(<<Put("exceptIds", Vector(quint32))>>, Tl("MessagesChats")),
   MessagesGetAllDrafts |-> Call(<<>>, Tl("Updates")),
   MessagesGetAllStickers |-> Call(<<Put("hash", quint32)>>, Tl("MessagesAllStickers"))]

\* The calls of MessagesGetArchivedStickers to MessagesGetFullChat.
CallsFromMessagesGetArchivedStickers ==
  [MessagesGetArchivedStickers |->
     Call(<<Put("flags", quint32), Put("offsetId", quint64), Put("limit", quint32)>>,
          Tl("MessagesArchivedStickers")),
   MessagesGetAttachedStickers |->
     Call(<<Put("media", Tl("InputStickeredMedia"))>>, Vector(Tl("StickerSetCovered"))),
   MessagesGetBotCallbackAnswer |->
     Call(<<Put("flags", quint32), Put("peer", Tl("InputPeer")), Put("msgId", quint32),
               PutIf(0, "data", QByteArray)>>,
          Tl("MessagesBotCallbackAnswer")),
   MessagesGetChats |-> Call(<<Put("id", Vector(quint32))>>, Tl("MessagesChats")),
   MessagesGetCommonChats |->
     Call(<<Put("userId", Tl("InputUser")), Put("maxId", quint32), Put("limit", quint32)>>,
          Tl("MessagesChats")),
   MessagesGetDhConfig |->
     Call(<<Put("version", quint32), Put("randomLength", quint32)>>, Tl("MessagesDhConfig")),
   MessagesGetDialogs |->
     Call(<<Put("flags", quint32), Put("offsetDate", quint32), Put("offsetId", quint32),
               Put("offsetPeer", Tl("InputPeer")), Put("limit", quint32)>>,
          Tl("MessagesDialogs")),
   MessagesGetDocumentByHash |->
     Call(<<Put("sha256", QByteArray), Put("size", quint32), Put("mimeType", QString)>>,
          Tl("Document")),
   MessagesGetFavedStickers |-> Call(<<Put("hash", quint32)>>, Tl("MessagesFavedStickers")),
   MessagesGetFeaturedStickers |->
     Call(<<Put("hash", quint32)>>, Tl("MessagesFeaturedStickers")),
   MessagesGetFullChat |-> Call(<<Put("chatId", quint32)>>, Tl("MessagesChatFull"))]

\* The calls of MessagesGetGameHighScores to MessagesGetPinnedDialogs.
CallsFromMessagesGetGameHighScores ==
  [MessagesGetGameHighScores |->
     Call(<<Put("peer", Tl("InputPeer")), Put("id", quint32), Put("userId", Tl("InputUser"))>>,
          Tl("MessagesHighScores")),
   MessagesGetHistory |->
     Call(<<Put("peer", Tl("InputPeer")), Put("offsetId", quint32), Put("offsetDate", quint32),
               Put("addOffset", quint32), Put("limit", quint32), Put("maxId", quint32),
               Put("minId", quint32), Put("hash", quint32)>>,
          Tl("MessagesMessages")),
   MessagesGetInlineBotResults |->
     Call(<<Put("flags", quint32), Put("bot", Tl("InputUser")), Put("peer", Tl("InputPeer")),
               PutIf(0, "geoPoint", Tl("InputGeoPoint")), Put("query", QString),
               Put("offset", QString)>>,
          Tl("MessagesBotResults")),
   MessagesGetInlineGameHighScores |->
     Call(<<Put("id", Tl("InputBotInlineMessageID")), Put("userId", Tl("InputUser"))>>,
          Tl("MessagesHighScores")),
   MessagesGetMaskStickers |-> Call(<<Put("hash", quint32)>>, Tl("MessagesAllStickers")),
   MessagesGetMessageEditData |->
     Call(<<Put("peer", Tl("InputPeer")), Put("id", quint32)>>, Tl("MessagesMessageEditData")),
   MessagesGetMessages |-> Call(<<Put("id", Vector(quint32))>>, Tl("MessagesMessages")),
   MessagesGetMessagesViews |->
     Call(<<Put("peer", Tl("InputPeer")), Put("id", Vector(quint32)), Put("increment", bool)>>,
          Vector(quint32)),
   MessagesGetPeerDialogs |->
     Call(<<Put("peers", Vector(Tl("InputPeer")))>>, Tl("MessagesPeerDialogs")),
   MessagesGetPeerSettings |-> Call(<<Put("peer", Tl("InputPeer"))>>, Tl("PeerSettings")),
   MessagesGetPinnedDialogs |-> Call(<<>>, Tl("MessagesPeerDialogs"))]

\* The calls of MessagesGetRecentLocations to MessagesReadEncryptedHistory.
CallsFromMessagesGetRecentLocations ==
  [MessagesGetRecentLocations |->
     Call(<<Put("peer", Tl("InputPeer")), Put("limit", quint32)>>, Tl("MessagesMessages")),
   MessagesGetRecentStickers |->
     Call(<<Put("flags", quint32), Put("hash", quint32)>>, Tl("MessagesRecentStickers")),
   MessagesGetSavedGifs |-> Call(<<Put("hash", quint32)>>, Tl("MessagesSavedGifs")),
   MessagesGetStickerSet |->
     Call(<<Put("stickerset", Tl("InputStickerSet"))>>, Tl("MessagesStickerSet")),
   MessagesGetUnreadMentions |->
     Call(<<Put("peer", Tl("InputPeer")), Put("offsetId", quint32), Put("addOffset", quint32),
               Put("limit", quint32), Put("maxId", quint32), Put("minId", quint32)>>,
          Tl("MessagesMessages")),
   MessagesGetWebPage |-> Call(<<Put("url", QString), Put("hash", quint32)>>, Tl("WebPage")),
   MessagesGetWebPagePreview |-> Call(<<Put("message", QString)>>, Tl("MessageMedia")),
   MessagesHideReportSpam |-> Call(<<Put("peer", Tl("InputPeer"))>>, TLBool),
   MessagesImportChatInvite |-> Call(<<Put("hash", QString)>>, Tl("Updates")),
   MessagesInstallStickerSet |->
     Call(<<Put("stickerset", Tl("InputStickerSet")), Put("archived", bool)>>,
          Tl("MessagesStickerSetInstallResult")),
   MessagesMigrateChat |-> Call(<<Put("chatId", quint32)>>, Tl("Updates")),
   MessagesReadEncryptedHistory |->
     Call(<<Put("peer", Tl("InputEncryptedChat")), Put("maxDate", quint32)>>, TLBool)]

\* The calls of MessagesReadFeaturedStickers to MessagesSaveDraft.
CallsFromMessagesReadFeaturedStickers ==
  [MessagesReadFeaturedStickers |-> Call(<<Put("id", Vector(quint64))>>, TLBool),
   MessagesReadHistory |->
     Call(<<Put("peer", Tl("InputPeer")), Put("maxId", quint32)>>,
          Tl("MessagesAffectedMessages")),
   MessagesReadMentions |->
     Call(<<Put("peer", Tl("InputPeer"))>>, Tl("MessagesAffectedHistory")),
   MessagesReadMessageContents |->
     Call(<<Put("id", Vector(quint32))>>, Tl("MessagesAffectedMessages")),
   MessagesReceivedMessages |->
     Call(<<Put("maxId", quint32)>>, Vector(Tl("ReceivedNotifyMessage"))),
   MessagesReceivedQueue |-> Call(<<Put("maxQts", quint32)>>, Vector(quint64)),
   MessagesReorderPinnedDialogs |->
     Call(<<Put("flags", quint32), Put("order", Vector(Tl("InputPeer")))>>, TLBool),
   MessagesReorderStickerSets |->
     Call(<<Put("flags", quint32), Put("order", Vector(quint64))>>, TLBool),
   MessagesReportEncryptedSpam |-> Call(<<Put("peer", Tl("InputEncryptedChat"))>>, TLBool),
   MessagesReportSpam |-> Call(<<Put("peer", Tl("InputPeer"))>>, TLBool),
   MessagesRequestEncryption |->
     Call(<<Put("userId", Tl("InputUser")), Put("randomId", quint32), Put("gA", QByteArray)>>,
          Tl("EncryptedChat")),
   MessagesSaveDraft |->
     Call(<<Put("flags", quint32), PutIf(0, "replyToMsgId", quint32),
               Put("peer", Tl("InputPeer")), Put("message", QString),
               PutIf(3, "entities", Vector(Tl("MessageEntity")))>>,
          TLBool)]

\* The calls of MessagesSaveGif to MessagesSendInlineBotResult.
CallsFromMessagesSaveGif ==
  [MessagesSaveGif |-> Call(<<Put("id", Tl("InputDocument")), Put("unsave", bool)>>, TLBool),
   MessagesSaveRecentSticker |->
     Call(<<Put("flags", quint32), Put("id", Tl("InputDocument")), Put("unsave", bool)>>, TLBool),
   MessagesSearch |->
     Call(<<Put("flags", quint32), Put("peer", Tl("InputPeer")), Put("q", QString),
               PutIf(0, "fromId", Tl("InputUser")), Put("filter", Tl("MessagesFilter")),
               Put("minDate", quint32), Put("maxDate", quint32), Put("offsetId", quint32),
               Put("addOffset", quint32), Put("limit", quint32), Put("maxId", quint32),
               Put("minId", quint32)>>,
          Tl("MessagesMessages")),
   MessagesSearchGifs |->
     Call(<<Put("q", QString), Put("offset", quint32)>>, Tl("MessagesFoundGifs")),
   MessagesSearchGlobal |->
     Call(<<Put("q", QString), Put("offsetDate", quint32), Put("offsetPeer", Tl("InputPeer")),
               Put("offsetId", quint32), Put("limit", quint32)>>,
          Tl("MessagesMessages")),
   MessagesSendEncrypted |->
     Call(<<Put("peer", Tl("InputEncryptedChat")), Put("randomId", quint64),
               Put("data", QByteArray)>>,
          Tl("MessagesSentEncryptedMessage")),
   MessagesSendEncryptedFile |->
     Call(<<Put("peer", Tl("InputEncryptedChat")), Put("randomId", quint64),
               Put("data", QByteArray), Put("file", Tl("InputEncryptedFile"))>>,
          Tl("MessagesSentEncryptedMessage")),
   MessagesSendEncryptedService |->
     Call(<<Put("peer", Tl("InputEncryptedChat")), Put("randomId", quint64),
               Put("data", QByteArray)>>,
          Tl("MessagesSentEncryptedMessage")),
   MessagesSendInlineBotResult |->
     Call(<<Put("flags", quint32), Put("peer", Tl("InputPeer")),
               PutIf(0, "replyToMsgId", quint32), Put("randomId", quint64),
               Put("queryId", quint64), Put("id", QString)>>,
          Tl("Updates"))]

\* The calls of MessagesSendMedia to MessagesSetGameScore.
CallsFromMessagesSendMedia ==
  [MessagesSendMedia |->
     Call(<<Put("flags", quint32), Put("peer", Tl("InputPeer")),
               PutIf(0, "replyToMsgId", quint32), Put("media", Tl("InputMedia")),
               Put("randomId", quint64), PutIf(2, "replyMarkup", Tl("ReplyMarkup"))>>,
          Tl("Updates")),
   MessagesSendMessage |->
     Call(<<Put("flags", quint32), Put("peer", Tl("InputPeer")),
               PutIf(0, "replyToMsgId", quint32), Put("message", QString),
               Put("randomId", quint64), PutIf(2, "replyMarkup", Tl("ReplyMarkup")),
               PutIf(3, "entities", Vector(Tl("MessageEntity")))>>,
          Tl("Updates")),
   MessagesSendScreenshotNotification |->
     Call(<<Put("peer", Tl("InputPeer")), Put("replyToMsgId", quint32), Put("randomId",
         quint64)>>,
          Tl("Updates")),
   MessagesSetBotCallbackAnswer |->
     Call(<<Put("flags", quint32), Put("queryId", quint64), PutIf(0, "message", QString),
               PutIf(2, "url", QString), Put("cacheTime", quint32)>>,
          TLBool),
   MessagesSetBotPrecheckoutResults |->
     Call(<<Put("flags", quint32), Put("queryId", quint64), PutIf(0, "error", QString)>>, TLBool),
   MessagesSetBotShippingResults |->
     Call(<<Put("flags", quint32), Put("queryId", quint64), PutIf(0, "error", QString),
               PutIf(1, "shippingOptions", Vector(Tl("ShippingOption")))>>,
          TLBool),
   MessagesSetEncryptedTyping |->
     Call(<<Put("peer", Tl("InputEncryptedChat")), Put("typing", bool)>>, TLBool),
   MessagesSetGameScore |->
     Call(<<Put("flags", quint32), Put("peer", Tl("InputPeer")), Put("id", quint32),
               Put("userId", Tl("InputUser")), Put("score", quint32)>>,
          Tl("Updates"))]

\* The calls of MessagesSetInlineBotResults to MessagesUploadMedia.
CallsFromMessagesSetInlineBotResults ==
  [MessagesSetInlineBotResults |->
     Call(<<Put("flags", quint32), Put("queryId", quint64),
               Put("results", Vector(Tl("InputBotInlineResult"))), Put("cacheTime", quint32),
               PutIf(2, "nextOffset", QString), PutIf(3, "switchPm", Tl("InlineBotSwitchPM"))>>,
          TLBool),
   MessagesSetInlineGameScore |->
     Call(<<Put("flags", quint32), Put("id", Tl("InputBotInlineMessageID")),
               Put("userId", Tl("InputUser")), Put("score", quint32)>>,
          TLBool),
   MessagesSetTyping |->
     Call(<<Put("peer", Tl("InputPeer")), Put("action", Tl("SendMessageAction"))>>, TLBool),
   MessagesStartBot |->
     Call(<<Put("bot", Tl("InputUser")), Put("peer", Tl("InputPeer")), Put("randomId", quint64),
               Put("startParam", QString)>>,
          Tl("Updates")),
   MessagesToggleChatAdmins |->
     Call(<<Put("chatId", quint32), Put("enabled", bool)>>, Tl("Updates")),
   MessagesToggleDialogPin |->
     Call(<<Put("flags", quint32), Put("peer", Tl("InputPeer"))>>, TLBool),
   MessagesUninstallStickerSet |-> Call(<<Put("stickerset", Tl("InputStickerSet"))>>, TLBool),
   MessagesUploadMedia |->
     Call(<<Put("peer", Tl("InputPeer")), Put("media", Tl("InputMedia"))>>, Tl("MessageMedia"))]

\* The calls of PaymentsClearSavedInfo to PaymentsValidateRequestedInfo.
CallsFromPaymentsClearSavedInfo ==
  [PaymentsClearSavedInfo |-> Call(<<Put("flags", quint32)>>, TLBool),
   PaymentsGetPaymentForm |-> Call(<<Put("msgId", quint32)>>, Tl("PaymentsPaymentForm")),
   PaymentsGetPaymentReceipt |->
     Call(<<Put("msgId", quint32)>>, Tl("PaymentsPaymentReceipt")),
   PaymentsGetSavedInfo |-> Call(<<>>, Tl("PaymentsSavedInfo")),
   PaymentsSendPaymentForm |->
     Call(<<Put("flags", quint32), Put("msgId", quint32), PutIf(0, "requestedInfoId", QString),
               PutIf(1, "shippingOptionId", QString),
               Put("credentials", Tl("InputPaymentCredentials"))>>,
          Tl("PaymentsPaymentResult")),
   PaymentsValidateRequestedInfo |->
     Call(<<Put("flags", quint32), Put("msgId", quint32),
               Put("info", Tl("PaymentRequestedInfo"))>>,
          Tl("PaymentsValidatedRequestedInfo"))]

\* The calls of PhoneAcceptCall to PhoneSetCallRating.
CallsFromPhoneAcceptCall ==
  [PhoneAcceptCall |->
     Call(<<Put("peer", Tl("InputPhoneCall")), Put("gB", QByteArray),
               Put("protocol", Tl("PhoneCallProtocol"))>>,
          Tl("PhonePhoneCall")),
   PhoneConfirmCall |->
     Call(<<Put("peer", Tl("InputPhoneCall")), Put("gA", QByteArray),
               Put("keyFingerprint", quint64), Put("protocol", Tl("PhoneCallProtocol"))>>,
          Tl("PhonePhoneCall")),
   PhoneDiscardCall |->
     Call(<<Put("peer", Tl("InputPhoneCall")), Put("duration", quint32),
               Put("reason", Tl("PhoneCallDiscardReason")), Put("connectionId", quint64)>>,
          Tl("Updates")),
   PhoneGetCallConfig |-> Call(<<>>, Tl("DataJSON")),
   PhoneReceivedCall |-> Call(<<Put("peer", Tl("InputPhoneCall"))>>, TLBool),
   PhoneRequestCall |->
     Call(<<Put("userId", Tl("InputUser")), Put("randomId", quint32), Put("gAHash", QByteArray),
               Put("protocol", Tl("PhoneCallProtocol"))>>,
          Tl("PhonePhoneCall")),
   PhoneSaveCallDebug |->
     Call(<<Put("peer", Tl("InputPhoneCall")), Put("debug", Tl("DataJSON"))>>, TLBool),
   PhoneSetCallRating |->
     Call(<<Put("peer", Tl("InputPhoneCall")), Put("rating", quint32), Put("comment", QString)>>,
          Tl("Updates"))]

\* The calls of PhotosDeletePhotos to PhotosUploadProfilePhoto.
CallsFromPhotosDeletePhotos ==
  [PhotosDeletePhotos |-> Call(<<Put("id", Vector(Tl("InputPhoto")))>>, Vector(quint64)),
   PhotosGetUserPhotos |->
     Call(<<Put("userId", Tl("InputUser")), Put("offset", quint32), Put("maxId", quint64),
               Put("limit", quint32)>>,
          Tl("PhotosPhotos")),
   PhotosUpdateProfilePhoto |-> Call(<<Put("id", Tl("InputPhoto"))>>, Tl("UserProfilePhoto")),
   PhotosUploadProfilePhoto |-> Call(<<Put("file", Tl("InputFile"))>>, Tl("PhotosPhoto"))]

\* The calls of StickersAddStickerToSet to StickersRemoveStickerFromSet.
CallsFromStickersAddStickerToSet ==
  [StickersAddStickerToSet |->
     Call(<<Put("stickerset", Tl("InputStickerSet")), Put("sticker", Tl("InputStickerSetItem"))>>,
          Tl("MessagesStickerSet")),
   StickersChangeStickerPosition |->
     Call(<<Put("sticker", Tl("InputDocument")), Put("position", quint32)>>,
          Tl("MessagesStickerSet")),
   StickersCreateStickerSet |->
     Call(<<Put("flags", quint32), Put("userId", Tl("InputUser")), Put("title", QString),
               Put("shortName", QString), Put("stickers", Vector(Tl("InputStickerSetItem")))>>,
          Tl("MessagesStickerSet")),
   StickersRemoveStickerFromSet |->
     Call(<<Put("sticker", Tl("InputDocument"))>>, Tl("MessagesStickerSet"))]

\* The calls of UpdatesGetChannelDifference to UpdatesGetState.
CallsFromUpdatesGetChannelDifference ==
  [UpdatesGetChannelDifference |->
     Call(<<Put("flags", quint32), Put("channel", Tl("InputChannel")),
               Put("filter", Tl("ChannelMessagesFilter")), Put("pts", quint32),
               Put("limit", quint32)>>,
          Tl("UpdatesChannelDifference")),
   UpdatesGetDifference |->
     Call(<<Put("flags", quint32), Put("pts", quint32), PutIf(0, "ptsTotalLimit", quint32),
               Put("date", quint32), Put("qts", quint32)>>,
          Tl("UpdatesDifference")),
   UpdatesGetState |-> Call(<<>>, Tl("UpdatesState"))]

\* The calls of UploadGetCdnFile to UploadSaveFilePart.
CallsFromUploadGetCdnFile ==
  [UploadGetCdnFile |->
     Call(<<Put("fileToken", QByteArray), Put("offset", quint32), Put("limit", quint32)>>,
          Tl("UploadCdnFile")),
   UploadGetCdnFileHashes |->
     Call(<<Put("fileToken", QByteArray), Put("offset", quint32)>>, Vector(Tl("CdnFileHash"))),
   UploadGetFile |->
     Call(<<Put("location", Tl("InputFileLocation")), Put("offset", quint32),
               Put("limit", quint32)>>,
          Tl("UploadFile")),
   UploadGetWebFile |->
     Call(<<Put("location", Tl("InputWebFileLocation")), Put("offset", quint32),
               Put("limit", quint32)>>,
          Tl("UploadWebFile")),
   UploadReuploadCdnFile |->
     Call(<<Put("fileToken", QByteArray), Put("requestToken", QByteArray)>>,
          Vector(Tl("CdnFileHash"))),
   UploadSaveBigFilePart |->
     Call(<<Put("fileId", quint64), Put("filePart", quint32), Put("fileTotalParts", quint32),
               Put("bytes", QByteArray)>>,
          TLBool),
   UploadSaveFilePart |->
     Call(<<Put("fileId", quint64), Put("filePart", quint32), Put("bytes", QByteArray)>>, TLBool)]

\* The calls of UsersGetFullUser to UsersGetUsers.
CallsFromUsersGetFullUser ==
  [UsersGetFullUser |-> Call(<<Put("id", Tl("InputUser"))>>, Tl("UserFull")),
   UsersGetUsers |-> Call(<<Put("id", Vector(Tl("InputUser")))>>, Vector(Tl("User")))]

\* The calls by the function they send.
Calls ==
  CallsFromAccountChangePhone @@ CallsFromAccountReportPeer @@ CallsFromAccountUpdateProfile
    @@ CallsFromAuthBindTempAuthKey @@ CallsFromAuthSendCode
    @@ CallsFromBotsAnswerWebhookJSONQuery @@ CallsFromChannelsCheckUsername
    @@ CallsFromChannelsExportMessageLink @@ CallsFromChannelsReadMessageContents
    @@ CallsFromContactsBlock @@ CallsFromContactsSearch @@ CallsFromHelpGetAppChangelog
    @@ CallsFromLangpackGetDifference @@ CallsFromMessagesAcceptEncryption
    @@ CallsFromMessagesEditInlineBotMessage @@ CallsFromMessagesGetArchivedStickers
    @@ CallsFromMessagesGetGameHighScores @@ CallsFromMessagesGetRecentLocations
    @@ CallsFromMessagesReadFeaturedStickers @@ CallsFromMessagesSaveGif
    @@ CallsFromMessagesSendMedia @@ CallsFromMessagesSetInlineBotResults
    @@ CallsFromPaymentsClearSavedInfo @@ CallsFromPhoneAcceptCall
    @@ CallsFromPhotosDeletePhotos @@ CallsFromStickersAddStickerToSet
    @@ CallsFromUpdatesGetChannelDifference @@ CallsFromUploadGetCdnFile
    @@ CallsFromUsersGetFullUser
=============================================================================
